---- MODULE Spec2Model ----
(***************************************************************************)
(* A model of resume.query.ObjectListQuery (src/resume/query/              *)
(* objectlistquery.py), of the grammar and the evaluation protocol of      *)
(* resume.query.Query (src/resume/query/query.py), of FieldSpecification   *)
(* (src/resume/query/FieldSpecification.py) and of SQLiteQuery             *)
(* (src/resume/query/sqlitequery.py).                                      *)
(*                                                                         *)
(* Text (search terms, field names, string values) is a sequence of        *)
(* one-character strings, so that matching, lower-casing and conversion    *)
(* are computed character by character as the library functions do.        *)
(***************************************************************************)
EXTENDS Integers, Sequences, FiniteSets, TLC

VARIABLES data, indexes, universal_set, call, result, fs, threads, adder

vars == <<data, indexes, universal_set, call, result, fs, threads, adder>>

(***************************************************************************)
(* Bounds of the model.                                                    *)
(***************************************************************************)
\* add_objects is not called with more objects than would bring the number
\* of identifiers above this
MaxObjects == 2

(***************************************************************************)
(* Values held by objects.  t is the Python type of the value, s its text  *)
(* (str), n/d a rational number (int, float; bool is 1/1 or 0/1 as in      *)
(* Python, where bool is a subclass of int), and for a datetime n is the   *)
(* day number year*10000 + month*100 + day, which orders like the dates.   *)
(* l is the sequence of the elements (texts) of a list.                    *)
(* A value of type "absent" stands for a missing key: the accessor raises. *)
(***************************************************************************)
StrVal(s) == [t |-> "str", s |-> s, n |-> 0, d |-> 1, l |-> <<>>]
IntVal(n) == [t |-> "int", s |-> <<>>, n |-> n, d |-> 1, l |-> <<>>]
FloatVal(n, d) == [t |-> "float", s |-> <<>>, n |-> n, d |-> d, l |-> <<>>]
BoolVal(b) == [t |-> "bool", s |-> <<>>, n |-> IF b THEN 1 ELSE 0, d |-> 1, l |-> <<>>]
DateVal(y, m, dd) ==
    [t |-> "datetime", s |-> <<>>, n |-> y * 10000 + m * 100 + dd, d |-> 1, l |-> <<>>]
ListVal(l) == [t |-> "list", s |-> <<>>, n |-> 0, d |-> 1, l |-> l]
Absent == [t |-> "absent", s |-> <<>>, n |-> 0, d |-> 1, l |-> <<>>]

(***************************************************************************)
(* The fields of the querier, as the test fixture registers them:          *)
(* (full name, abbreviated name, type), each with an accessor reading one  *)
(* key of the object; and one field of type list, registered the same way. *)
(***************************************************************************)
F_name == <<"n", "a", "m", "e">>
F_nm == <<"n", "m">>
F_caught == <<"c", "a", "u", "g", "h", "t">>
F_cg == <<"c", "g">>
F_height == <<"h", "e", "i", "g", "h", "t">>
F_hg == <<"h", "g">>
F_legs == <<"l", "e", "g", "s">>
F_lg == <<"l", "g">>
F_flys == <<"f", "l", "y", "s">>
F_fy == <<"f", "y">>
F_tags == <<"t", "a", "g", "s">>
F_tg == <<"t", "g">>

RegisteredFields ==
    << [full |-> F_name, abbr |-> F_nm, typ |-> "str", key |-> "name"],
       [full |-> F_caught, abbr |-> F_cg, typ |-> "datetime", key |-> "caught"],
       [full |-> F_height, abbr |-> F_hg, typ |-> "float", key |-> "height"],
       [full |-> F_legs, abbr |-> F_lg, typ |-> "int", key |-> "legs"],
       [full |-> F_flys, abbr |-> F_fy, typ |-> "bool", key |-> "flys"],
       [full |-> F_tags, abbr |-> F_tg, typ |-> "list", key |-> "tags"] >>

\* str.lower() on one character and on a text
UpperCase ==
    <<"A", "B", "C", "D", "E", "F", "G", "H", "I", "J", "K", "L", "M",
      "N", "O", "P", "Q", "R", "S", "T", "U", "V", "W", "X", "Y", "Z">>

LowerCase ==
    <<"a", "b", "c", "d", "e", "f", "g", "h", "i", "j", "k", "l", "m",
      "n", "o", "p", "q", "r", "s", "t", "u", "v", "w", "x", "y", "z">>

LowerChar(c) ==
    IF \E i \in 1..26 : UpperCase[i] = c
    THEN LowerCase[CHOOSE i \in 1..26 : UpperCase[i] = c]
    ELSE c

lower(s) == [i \in 1..Len(s) |-> LowerChar(s[i])]

\* self.fields: the keys with both names lower-cased (the dict keeps the
\* order of insertion)
fields ==
    [i \in 1..Len(RegisteredFields) |->
        [full |-> lower(RegisteredFields[i].full),
         abbr |-> lower(RegisteredFields[i].abbr),
         typ |-> RegisteredFields[i].typ,
         key |-> RegisteredFields[i].key]]

FieldKeys == {fields[i] : i \in 1..Len(fields)}

(***************************************************************************)
(* Objects: dictionaries, some lacking a key, some holding a value of      *)
(* another type than the field declares.                                   *)
(***************************************************************************)
Obj(name, caught, height, legs, flys, tags) ==
    [name |-> name, caught |-> caught, height |-> height, legs |-> legs, flys |-> flys,
     tags |-> tags]

ObjEr ==
    Obj(StrVal(<<"e", "r">>), DateVal(1990, 1, 1), FloatVal(15, 10), IntVal(2), BoolVal(FALSE),
        ListVal(<< <<"a">>, <<"b">> >>))
ObjBer ==
    Obj(StrVal(<<"b", "e", "r">>), DateVal(2002, 4, 11), Absent, IntVal(7), BoolVal(TRUE),
        ListVal(<< <<"a">> >>))
ObjEra ==
    Obj(StrVal(<<"e", "r", "a">>), Absent, IntVal(2), BoolVal(TRUE), IntVal(1),
        StrVal(<<"a">>))

Objects == {ObjEr, ObjBer, ObjEra}

\* identifier_foo: None (is_none, f unused), or a function f of the object.
\* UniqueId gives every object an identifier of its own; its identifiers
\* are integers, as the default identifiers are.
None == [is_none |-> TRUE, f |-> [o \in Objects |-> 0]]

UniqueId ==
    [is_none |-> FALSE,
     f |-> [o \in Objects |-> IF o = ObjEr THEN 1 ELSE IF o = ObjBer THEN 2 ELSE 0]]

IdentifierFoos == {None, UniqueId}

\* the values of call and result where no query has been made
NoTree == [op |-> "none", comp |-> "", term |-> <<>>, field |-> <<>>, operands |-> <<>>]

NoResult ==
    [ok |-> TRUE, ids |-> {}, err |-> [msg |-> "", field |-> <<>>, term |-> <<>>],
     n |-> 0, ret |-> <<>>]

(***************************************************************************)
(* ObjectListQuery.add_objects                                             *)
(***************************************************************************)
\* foo(obj) for the accessor of field k; Absent when it raises
foo(k, obj) ==
    CASE k.key = "name" -> obj.name
      [] k.key = "caught" -> obj.caught
      [] k.key = "height" -> obj.height
      [] k.key = "legs" -> obj.legs
      [] k.key = "flys" -> obj.flys
      [] k.key = "tags" -> obj.tags

raises(k, obj) == foo(k, obj).t = "absent"

\* isinstance(value, typ): bool is a subclass of int
isinstance(value, typ) ==
    \/ value.t = typ
    \/ value.t = "bool" /\ typ = "int"

\* the body of the loop without self.universal_set.add(idx)
add_one_mut(db, idx, obj) ==
    [universal_set |-> db.universal_set,
     data |-> (idx :> obj) @@ db.data,
     indexes |->
        [k \in FieldKeys |->
            IF ~raises(k, obj) /\ isinstance(foo(k, obj), k.typ)
            THEN (idx :> foo(k, obj)) @@ db.indexes[k]
            ELSE db.indexes[k]]]

\* the body of the loop over objects, lines 67-75, on the state db
add_one(db, idx, obj) ==
    [universal_set |-> db.universal_set \cup {idx},
     data |-> (idx :> obj) @@ db.data,
     indexes |->
        [k \in FieldKeys |->
            IF ~raises(k, obj) /\ isinstance(foo(k, obj), k.typ)
            THEN (idx :> foo(k, obj)) @@ db.indexes[k]
            ELSE db.indexes[k]]]

\* default identifiers counted from 0 in every call
identifier_mut(i, j, obj, identifier_foo) ==
    IF identifier_foo.is_none THEN j ELSE identifier_foo.f[obj]

\* the identifier of the j-th object (j counted from 0), line 66
identifier(i, j, obj, identifier_foo) ==
    IF identifier_foo.is_none THEN i + j ELSE identifier_foo.f[obj]

RECURSIVE add_loop(_, _, _, _, _)
add_loop(db, i, j, objects, identifier_foo) ==
    IF j >= Len(objects) THEN db
    ELSE add_loop(add_one(db, identifier(i, j, objects[j + 1], identifier_foo), objects[j + 1]),
                  i, j + 1, objects, identifier_foo)

\* add_objects emptying the querier before it adds the objects
add_objects_mut(objects, identifier_foo) ==
    LET i == 0
        db == add_loop([universal_set |-> {}, data |-> <<>>,
                        indexes |-> [k \in FieldKeys |-> <<>>]],
                       i, 0, objects, identifier_foo)
    IN  /\ universal_set' = db.universal_set
        /\ data' = db.data
        /\ indexes' = db.indexes
        /\ call' = [op |-> "add_objects", objects |-> objects,
                    ids |-> [j \in 1..Len(objects) |->
                                identifier(i, j - 1, objects[j], identifier_foo)],
                    default |-> identifier_foo.is_none,
                    tree |-> NoTree]
        /\ result' = NoResult

add_objects(objects, identifier_foo) ==
    LET i == Cardinality(universal_set)
        db == add_loop([universal_set |-> universal_set, data |-> data, indexes |-> indexes],
                       i, 0, objects, identifier_foo)
    IN  /\ universal_set' = db.universal_set
        /\ data' = db.data
        /\ indexes' = db.indexes
        /\ call' = [op |-> "add_objects", objects |-> objects,
                    ids |-> [j \in 1..Len(objects) |->
                                identifier(i, j - 1, objects[j], identifier_foo)],
                    default |-> identifier_foo.is_none,
                    tree |-> NoTree]
        /\ result' = NoResult

Batches == UNION {[1..n -> Objects] : n \in 0..MaxObjects}

AddObjects ==
    \E objects \in Batches, identifier_foo \in IdentifierFoos :
        /\ Cardinality(universal_set) + Len(objects) <= MaxObjects
        /\ add_objects(objects, identifier_foo)
        /\ UNCHANGED <<fs, threads, adder>>

(***************************************************************************)
(* Outcomes of an evaluation: a set of identifiers, or the ValueError      *)
(* raised.  n counts the leaves whose search method has been entered.      *)
(***************************************************************************)
NoErr == [msg |-> "", field |-> <<>>, term |-> <<>>]

Ok(ids, n) == [ok |-> TRUE, ids |-> ids, err |-> NoErr, n |-> n]

Raise(msg, field, term, n) ==
    [ok |-> FALSE, ids |-> {}, err |-> [msg |-> msg, field |-> field, term |-> term], n |-> n]

(***************************************************************************)
(* ObjectListQuery._match_field: the position in self.fields of the first  *)
(* key whose full or abbreviated name is field.lower(); 0 when the loop    *)
(* ends without a match (the ValueError "not recognised").                 *)
(***************************************************************************)
_match_field(field) ==
    LET f == lower(field)
        hits == {i \in 1..Len(fields) : f = fields[i].full \/ f = fields[i].abbr}
    IN  IF hits = {} THEN 0
        ELSE CHOOSE i \in hits : \A j \in hits : i <= j

(***************************************************************************)
(* fnmatch.translate(term) compiled, then pattern.search(entry).           *)
(* translate renders '*' as '.*', '?' as '.', any other character as       *)
(* itself, and closes the pattern with \Z: the pattern is tied to the end  *)
(* of the entry.  search tries every start position.  (Terms of the model  *)
(* hold no '[', so character classes do not arise.)                        *)
(***************************************************************************)
RECURSIVE translate_match(_, _)
\* the translated pattern matches the whole of s
translate_match(pat, s) ==
    IF pat = <<>> THEN s = <<>>
    ELSE IF Head(pat) = "*"
         THEN \/ translate_match(Tail(pat), s)
              \/ s # <<>> /\ translate_match(pat, Tail(s))
    ELSE IF Head(pat) = "?"
         THEN s # <<>> /\ translate_match(Tail(pat), Tail(s))
    ELSE s # <<>> /\ Head(s) = Head(pat) /\ translate_match(Tail(pat), Tail(s))

pattern_search(term, entry) ==
    \E start \in 1..(Len(entry) + 1) :
        translate_match(term, SubSeq(entry, start, Len(entry)))

(***************************************************************************)
(* float(term) for a term over the characters the grammar admits in a      *)
(* number search: digits, ':', '.' and '-'.                                *)
(***************************************************************************)
Digits == {"0", "1", "2", "3", "4", "5", "6", "7", "8", "9"}

DigitVal(c) ==
    CASE c = "0" -> 0 [] c = "1" -> 1 [] c = "2" -> 2 [] c = "3" -> 3 [] c = "4" -> 4
      [] c = "5" -> 5 [] c = "6" -> 6 [] c = "7" -> 7 [] c = "8" -> 8 [] c = "9" -> 9

RECURSIVE int_of(_)
\* the number a run of digits denotes
int_of(s) ==
    IF s = <<>> THEN 0
    ELSE 10 * int_of(SubSeq(s, 1, Len(s) - 1)) + DigitVal(s[Len(s)])

RECURSIVE pow10(_)
pow10(k) == IF k = 0 THEN 1 ELSE 10 * pow10(k - 1)

all_digits(s) == \A i \in 1..Len(s) : s[i] \in Digits

\* float(term): [ok, n, d]; ok is FALSE where float raises ValueError
float(term) ==
    LET neg == term # <<>> /\ term[1] = "-"
        body == IF neg THEN Tail(term) ELSE term
        dots == {i \in 1..Len(body) : body[i] = "."}
        dot == IF dots = {} THEN Len(body) + 1 ELSE CHOOSE i \in dots : TRUE
        whole == SubSeq(body, 1, dot - 1)
        frac == SubSeq(body, dot + 1, Len(body))
    IN  IF /\ Cardinality(dots) <= 1
           /\ all_digits(whole) /\ all_digits(frac)
           /\ Len(whole) + Len(frac) >= 1
        THEN [ok |-> TRUE,
              n |-> (IF neg THEN -1 ELSE 1) * int_of(whole \o frac),
              d |-> pow10(Len(frac))]
        ELSE [ok |-> FALSE, n |-> 0, d |-> 1]

(***************************************************************************)
(* datetime.datetime.strptime(term, "%Y-%m-%d"): four digits, '-', a month *)
(* 1..12 in one or two digits, '-', a day 1..31 in one or two digits,      *)
(* nothing after it; then the date must exist in the calendar.             *)
(***************************************************************************)
is_leap(y) == y % 4 = 0 /\ (y % 100 # 0 \/ y % 400 = 0)

days_in_month(y, m) ==
    IF m = 2 THEN (IF is_leap(y) THEN 29 ELSE 28)
    ELSE IF m \in {4, 6, 9, 11} THEN 30 ELSE 31

\* strptime without the check of the day against the month
strptime_mut(term) ==
    LET dashes == {i \in 1..Len(term) : term[i] = "-"}
        p1 == IF dashes = {} THEN 0 ELSE CHOOSE i \in dashes : \A j \in dashes : i <= j
        p2 == IF dashes = {} THEN 0 ELSE CHOOSE i \in dashes : \A j \in dashes : j <= i
        ys == SubSeq(term, 1, p1 - 1)
        ms == SubSeq(term, p1 + 1, p2 - 1)
        ds == SubSeq(term, p2 + 1, Len(term))
    IN  IF /\ Cardinality(dashes) = 2
           /\ Len(ys) = 4 /\ all_digits(ys)
           /\ Len(ms) \in {1, 2} /\ all_digits(ms) /\ int_of(ms) \in 1..12
           /\ Len(ds) \in {1, 2} /\ all_digits(ds) /\ int_of(ds) \in 1..31
           /\ int_of(ys) >= 1
        THEN [ok |-> TRUE, n |-> int_of(ys) * 10000 + int_of(ms) * 100 + int_of(ds), d |-> 1]
        ELSE [ok |-> FALSE, n |-> 0, d |-> 1]

strptime(term) ==
    LET dashes == {i \in 1..Len(term) : term[i] = "-"}
        p1 == IF dashes = {} THEN 0 ELSE CHOOSE i \in dashes : \A j \in dashes : i <= j
        p2 == IF dashes = {} THEN 0 ELSE CHOOSE i \in dashes : \A j \in dashes : j <= i
        ys == SubSeq(term, 1, p1 - 1)
        ms == SubSeq(term, p1 + 1, p2 - 1)
        ds == SubSeq(term, p2 + 1, Len(term))
        y == int_of(ys)
        m == int_of(ms)
        dd == int_of(ds)
    IN  IF /\ Cardinality(dashes) = 2
           /\ Len(ys) = 4 /\ all_digits(ys)
           /\ Len(ms) \in {1, 2} /\ all_digits(ms) /\ m \in 1..12
           /\ Len(ds) \in {1, 2} /\ all_digits(ds) /\ dd \in 1..31
           /\ y >= 1 /\ dd <= days_in_month(y, m)
        THEN [ok |-> TRUE, n |-> y * 10000 + m * 100 + dd, d |-> 1]
        ELSE [ok |-> FALSE, n |-> 0, d |-> 1]

(***************************************************************************)
(* ObjectListQuery.comparator_map: operator.gt, operator.lt, operator.eq   *)
(* on an indexed value and the converted term (both n/d with d > 0).       *)
(***************************************************************************)
Comparators == {">", "<", "="}

\* the comparators as operator.ge and operator.le
comparator_map_mut(comp, entry, qterm) ==
    CASE comp = ">" -> entry.n * qterm.d >= qterm.n * entry.d
      [] comp = "<" -> entry.n * qterm.d =< qterm.n * entry.d
      [] comp = "=" -> entry.n * qterm.d = qterm.n * entry.d

comparator_map(comp, entry, qterm) ==
    CASE comp = ">" -> entry.n * qterm.d > qterm.n * entry.d
      [] comp = "<" -> entry.n * qterm.d < qterm.n * entry.d
      [] comp = "=" -> entry.n * qterm.d = qterm.n * entry.d

(***************************************************************************)
(* The leaf searches of ObjectListQuery; n is the number of leaves entered *)
(* before this one.                                                        *)
(***************************************************************************)
search_string(term, field, n) ==
    LET i == _match_field(field)
        k == fields[i]
    IN  IF i = 0 THEN Raise("not recognised.", field, <<>>, n + 1)
        ELSE IF k.typ = "str"
        THEN Ok({idx \in DOMAIN indexes[k] : pattern_search(term, indexes[k][idx].s)}, n + 1)
        ELSE IF k.typ = "bool"
        THEN LET qterm == (lower(term) = <<"t">>)
             IN  Ok({idx \in DOMAIN indexes[k] : (indexes[k][idx].n = 1) = qterm}, n + 1)
        ELSE Raise("is not a string or bool.", field, <<>>, n + 1)

\* search_number converting the term before it looks at the type of the field
search_number_mut(comp, term, field, n) ==
    LET i == _match_field(field)
        k == fields[i]
        qterm == IF k.typ = "datetime" THEN strptime(term) ELSE float(term)
    IN  IF i = 0 THEN Raise("not recognised.", field, <<>>, n + 1)
        ELSE IF k.typ # "datetime" /\ ~qterm.ok
        THEN Raise("cannot be converted into a number.", field, term, n + 1)
        ELSE IF k.typ = "datetime" /\ ~qterm.ok
        THEN Raise("cannot be converted into a date.", field, term, n + 1)
        ELSE IF k.typ \notin {"float", "int", "datetime"}
        THEN Raise("is not a float or integer or datetime.", field, <<>>, n + 1)
        ELSE IF comp \notin Comparators
        THEN Raise("is not a valid comparator.", field, <<>>, n + 1)
        ELSE Ok({idx \in DOMAIN indexes[k] : comparator_map(comp, indexes[k][idx], qterm)},
                n + 1)

search_number(comp, term, field, n) ==
    LET i == _match_field(field)
        k == fields[i]
        qterm == IF k.typ \in {"float", "int"} THEN float(term) ELSE strptime(term)
    IN  IF i = 0 THEN Raise("not recognised.", field, <<>>, n + 1)
        ELSE IF k.typ \in {"float", "int"} /\ ~qterm.ok
        THEN Raise("cannot be converted into a number.", field, term, n + 1)
        ELSE IF k.typ = "datetime" /\ ~qterm.ok
        THEN Raise("cannot be converted into a date.", field, term, n + 1)
        ELSE IF k.typ \notin {"float", "int", "datetime"}
        THEN Raise("is not a float or integer or datetime.", field, <<>>, n + 1)
        ELSE IF comp \notin Comparators
        THEN Raise("is not a valid comparator.", field, <<>>, n + 1)
        ELSE Ok({idx \in DOMAIN indexes[k] : comparator_map(comp, indexes[k][idx], qterm)},
                n + 1)

\* search_list returning the next identifier to be given out
search_list_mut(comp, term, field, n) == Ok({Cardinality(universal_set)}, n + 1)

\* search_list returns set() whatever its arguments
search_list(comp, term, field, n) == Ok({}, n + 1)

(***************************************************************************)
(* Nodes of a parsed query.  A leaf holds comp, term and field; a          *)
(* SearchNot holds its operand, a SearchAnd/SearchOr its operands, in      *)
(* operands.                                                               *)
(***************************************************************************)
SearchString(term, field) ==
    [op |-> "string", comp |-> "", term |-> term, field |-> field, operands |-> <<>>]
SearchNumber(comp, term, field) ==
    [op |-> "number", comp |-> comp, term |-> term, field |-> field, operands |-> <<>>]
SearchList(comp, term, field) ==
    [op |-> "list", comp |-> comp, term |-> term, field |-> field, operands |-> <<>>]
SearchNot(oper) ==
    [op |-> "not", comp |-> "", term |-> <<>>, field |-> <<>>, operands |-> <<oper>>]
SearchAnd(operands) ==
    [op |-> "and", comp |-> "", term |-> <<>>, field |-> <<>>, operands |-> operands]
SearchOr(operands) ==
    [op |-> "or", comp |-> "", term |-> <<>>, field |-> <<>>, operands |-> operands]

RECURSIVE reduce_and(_)
\* reduce(lambda x, y: x & y, results)
reduce_and(rs) ==
    IF Len(rs) = 1 THEN rs[1]
    ELSE reduce_and(<<rs[1] \cap rs[2]>> \o SubSeq(rs, 3, Len(rs)))

RECURSIVE reduce_or(_)
\* reduce(lambda x, y: x | y, results)
reduce_or(rs) ==
    IF Len(rs) = 1 THEN rs[1]
    ELSE reduce_or(<<rs[1] \cup rs[2]>> \o SubSeq(rs, 3, Len(rs)))

RECURSIVE evaluate(_, _)
RECURSIVE evaluate_all(_, _)

\* the operands all evaluated, the last error kept
evaluate_all_mut(operands, n) ==
    IF operands = <<>> THEN [ok |-> TRUE, rs |-> <<>>, err |-> NoErr, n |-> n]
    ELSE LET h == evaluate(Head(operands), n)
             t == evaluate_all(Tail(operands), h.n)
         IN  IF ~t.ok THEN t
             ELSE IF ~h.ok THEN [ok |-> FALSE, rs |-> <<>>, err |-> h.err, n |-> t.n]
             ELSE [ok |-> TRUE, rs |-> <<h.ids>> \o t.rs, err |-> NoErr, n |-> t.n]

\* [oper.evaluate() for oper in operands]: in order, the first error ends it
evaluate_all(operands, n) ==
    IF operands = <<>> THEN [ok |-> TRUE, rs |-> <<>>, err |-> NoErr, n |-> n]
    ELSE LET h == evaluate(Head(operands), n)
         IN  IF ~h.ok THEN [ok |-> FALSE, rs |-> <<>>, err |-> h.err, n |-> h.n]
             ELSE LET t == evaluate_all(Tail(operands), h.n)
                  IN  [ok |-> t.ok, rs |-> <<h.ids>> \o t.rs, err |-> t.err, n |-> t.n]

\* search_not returning the operand's set itself
search_not_mut(operand, n) ==
    LET r == evaluate(operand, n)
    IN  IF r.ok THEN Ok(r.ids, r.n) ELSE r

search_not(operand, n) ==
    LET r == evaluate(operand, n)
    IN  IF r.ok THEN Ok(universal_set \ r.ids, r.n) ELSE r

\* search_and folding with | in place of &
search_and_mut(operands, n) ==
    LET r == evaluate_all(operands, n)
    IN  IF r.ok THEN Ok(reduce_or(r.rs), r.n)
        ELSE [ok |-> FALSE, ids |-> {}, err |-> r.err, n |-> r.n]

search_and(operands, n) ==
    LET r == evaluate_all(operands, n)
    IN  IF r.ok THEN Ok(reduce_and(r.rs), r.n)
        ELSE [ok |-> FALSE, ids |-> {}, err |-> r.err, n |-> r.n]

\* search_or folding with & in place of |
search_or_mut(operands, n) ==
    LET r == evaluate_all(operands, n)
    IN  IF r.ok THEN Ok(reduce_and(r.rs), r.n)
        ELSE [ok |-> FALSE, ids |-> {}, err |-> r.err, n |-> r.n]

search_or(operands, n) ==
    LET r == evaluate_all(operands, n)
    IN  IF r.ok THEN Ok(reduce_or(r.rs), r.n)
        ELSE [ok |-> FALSE, ids |-> {}, err |-> r.err, n |-> r.n]

\* an And whose first operand evaluates to no identifier returning at once
evaluate_mut(node, n) ==
    CASE node.op = "not" -> search_not(node.operands[1], n)
      [] node.op = "and" ->
            IF evaluate(node.operands[1], n).ok /\ evaluate(node.operands[1], n).ids = {}
            THEN evaluate(node.operands[1], n)
            ELSE search_and(node.operands, n)
      [] node.op = "or" -> search_or(node.operands, n)
      [] node.op = "string" -> search_string(node.term, node.field, n)
      [] node.op = "number" -> search_number(node.comp, node.term, node.field, n)
      [] node.op = "list" -> search_list(node.comp, node.term, node.field, n)

\* the evaluate methods of the node classes of Query._create_grammar
evaluate(node, n) ==
    CASE node.op = "not" -> search_not(node.operands[1], n)
      [] node.op = "and" -> search_and(node.operands, n)
      [] node.op = "or" -> search_or(node.operands, n)
      [] node.op = "string" -> search_string(node.term, node.field, n)
      [] node.op = "number" -> search_number(node.comp, node.term, node.field, n)
      [] node.op = "list" -> search_list(node.comp, node.term, node.field, n)

(***************************************************************************)
(* ObjectListQuery.query on a parsed query: Query.query evaluates the root *)
(* node, then the objects of the identifiers are looked up in data.        *)
(***************************************************************************)
query(tree) ==
    LET r == evaluate(tree, 0)
    IN  IF ~r.ok THEN [ok |-> FALSE, ids |-> {}, err |-> r.err, n |-> r.n, ret |-> <<>>]
        ELSE IF r.ids \subseteq DOMAIN data
        THEN [ok |-> TRUE, ids |-> r.ids, err |-> NoErr, n |-> r.n,
              ret |-> [idx \in r.ids |-> data[idx]]]
        ELSE [ok |-> FALSE, ids |-> {},
              err |-> [msg |-> "KeyError", field |-> <<>>, term |-> <<>>],
              n |-> r.n, ret |-> <<>>]

(***************************************************************************)
(* FieldSpecification: self.fields is the dict of the constructor's        *)
(* argument with both names of every key lower-cased.  A dict keeps the    *)
(* order of insertion; a key set again keeps its place and takes the new   *)
(* value.  fs is self.fields of the instance: a sequence of keys with      *)
(* their values.                                                           *)
(***************************************************************************)
\* d[key] = value on a dict in insertion order
dict_set(d, k) ==
    LET same == {i \in 1..Len(d) :
                    d[i].full = k.full /\ d[i].abbr = k.abbr /\ d[i].typ = k.typ}
    IN  IF same = {} THEN Append(d, k)
        ELSE [i \in 1..Len(d) |-> IF i \in same THEN k ELSE d[i]]

RECURSIVE FieldSpecification(_)
\* FieldSpecification.__init__: the dict comprehension over fields.items()
FieldSpecification(registered) ==
    IF registered = <<>> THEN <<>>
    ELSE LET k == registered[Len(registered)]
         IN  dict_set(FieldSpecification(SubSeq(registered, 1, Len(registered) - 1)),
                      [full |-> lower(k.full), abbr |-> lower(k.abbr),
                       typ |-> k.typ, key |-> k.key])

\* FieldSpecification.match: the position in self.fields of the first key
\* whose full or abbreviated name is field.lower(); 0 where it raises
match(field) ==
    LET f == lower(field)
        hits == {i \in 1..Len(fs) : f = fs[i].full \/ f = fs[i].abbr}
    IN  IF hits = {} THEN 0
        ELSE CHOOSE i \in hits : \A j \in hits : i <= j

\* what a conversion returns, (k, v, qterm) with k, v = self.fields item i,
\* or the ValueError it raises
Conv(i, qterm) == [ok |-> TRUE, i |-> i, qterm |-> qterm, err |-> NoErr]

ConvRaise(msg, field, term) ==
    [ok |-> FALSE, i |-> 0, qterm |-> Absent,
     err |-> [msg |-> msg, field |-> field, term |-> term]]

RECURSIVE split(_)
\* term.split(",")
split(s) ==
    LET commas == {i \in 1..Len(s) : s[i] = ","}
        p == CHOOSE i \in commas : \A j \in commas : i <= j
    IN  IF commas = {} THEN <<s>>
        ELSE <<SubSeq(s, 1, p - 1)>> \o split(SubSeq(s, p + 1, Len(s)))

\* the datetime strptime returns, as a value
date_of(q) == DateVal(q.n \div 10000, (q.n \div 100) % 100, q.n % 100)

convert_string(field, term) ==
    LET i == match(field)
    IN  IF i = 0 THEN ConvRaise("not recognised.", field, <<>>)
        ELSE IF fs[i].typ = "str" THEN Conv(i, StrVal(term))
        ELSE IF fs[i].typ = "bool" THEN Conv(i, BoolVal(lower(term) = <<"t">>))
        ELSE ConvRaise("is not string.", field, <<>>)

convert_numeric(field, term) ==
    LET i == match(field)
    IN  IF i = 0 THEN ConvRaise("not recognised.", field, <<>>)
        ELSE IF fs[i].typ \in {"float", "int"}
        THEN IF float(term).ok THEN Conv(i, FloatVal(float(term).n, float(term).d))
             ELSE ConvRaise("cannot be converted into a number.", field, term)
        ELSE IF fs[i].typ = "datetime"
        THEN IF strptime(term).ok THEN Conv(i, date_of(strptime(term)))
             ELSE ConvRaise("cannot be converted into a date.", field, term)
        ELSE ConvRaise("is not numeric.", field, <<>>)

convert_list(field, term) ==
    LET i == match(field)
    IN  IF i = 0 THEN ConvRaise("not recognised.", field, <<>>)
        ELSE IF fs[i].typ = "list" THEN Conv(i, ListVal(split(term)))
        ELSE ConvRaise("is not a list.", field, <<>>)

(***************************************************************************)
(* query.convert_term_to_type, the conversion MongoQuery uses.  In the     *)
(* bool branch the code compares term.lower, the bound method, with "t":   *)
(* a method is never equal to a string, so the branch returns False.       *)
(***************************************************************************)
convert_term_to_type(field, term, target_type, possible_types) ==
    IF target_type \notin possible_types
    THEN ConvRaise("is not a {possible_types}.", field, <<>>)
    ELSE IF target_type = "str" THEN Conv(0, StrVal(term))
    ELSE IF target_type = "bool" THEN Conv(0, BoolVal(FALSE))
    ELSE IF target_type \in {"float", "int"}
    THEN IF float(term).ok THEN Conv(0, FloatVal(float(term).n, float(term).d))
         ELSE ConvRaise("cannot be converted into a number.", field, term)
    ELSE IF target_type = "datetime"
    THEN IF strptime(term).ok THEN Conv(0, date_of(strptime(term)))
         ELSE ConvRaise("cannot be converted into a date.", field, term)
    ELSE IF target_type = "list" THEN Conv(0, ListVal(split(term)))
    ELSE Conv(0, StrVal(term))

(***************************************************************************)
(* MongoQuery._match_field and MongoQuery.search_string.  self.fields of a *)
(* MongoQuery is built and searched as FieldSpecification builds and       *)
(* searches its own, so fs stands for it too.  A document {path: qterm} or *)
(* {path: {"$regex": qterm}} is [path, op, qterm].                         *)
(***************************************************************************)
mongo_match_field(field) ==
    LET f == lower(field)
        hits == {i \in 1..Len(fs) : f = fs[i].full \/ f = fs[i].abbr}
    IN  IF hits = {} THEN 0
        ELSE CHOOSE i \in hits : \A j \in hits : i <= j

NoDoc == [path |-> "", op |-> "", qterm |-> Absent, docs |-> <<>>]

Doc(path, op, qterm) ==
    [ok |-> TRUE, doc |-> [path |-> path, op |-> op, qterm |-> qterm, docs |-> <<>>],
     err |-> NoErr]

DocRaise(err) == [ok |-> FALSE, doc |-> NoDoc, err |-> err]

\* qterm.replace("*", "")
without_stars(s) == SelectSeq(s, LAMBDA c : c # "*")

mongo_search_string(term, field) ==
    LET i == mongo_match_field(field)
        q == convert_term_to_type(field, term, fs[i].typ, {"str", "bool"})
    IN  IF i = 0
        THEN DocRaise([msg |-> "not recognised.", field |-> field, term |-> <<>>])
        ELSE IF ~q.ok THEN DocRaise(q.err)
        ELSE IF q.qterm.t = "str"
        THEN IF \E j \in 1..Len(term) : term[j] = "*"
             THEN Doc(fs[i].key, "$regex", StrVal(without_stars(term)))
             ELSE Doc(fs[i].key, "", q.qterm)
        ELSE Doc(fs[i].key, "", q.qterm)

\* the filter MongoQuery.search_string renders, applied by the database to
\* a stored string: {path: qterm} selects the values equal to qterm,
\* {path: {"$regex": qterm}} those in which the pattern is found at some
\* position.  (Without its stars a term of the model is letters and
\* digits, which as a pattern match themselves.)
mongo_selects(doc, value) ==
    IF doc.op = "$regex"
    THEN \E i \in 0..(Len(value.s) - Len(doc.qterm.s)) :
            SubSeq(value.s, i + 1, i + Len(doc.qterm.s)) = doc.qterm.s
    ELSE value = doc.qterm

\* MongoQuery.comparator_map.get(comp, None); "" stands for None
mongo_comparator_map(comp) ==
    CASE comp = ">" -> "$gt"
      [] comp = "<" -> "$lt"
      [] comp = "=" -> "$eq"
      [] OTHER -> ""

mongo_search_number(comp, term, field) ==
    LET i == mongo_match_field(field)
        q == convert_term_to_type(field, term, fs[i].typ, {"float", "int", "datetime"})
        comp_op == mongo_comparator_map(comp)
    IN  IF i = 0
        THEN DocRaise([msg |-> "not recognised.", field |-> field, term |-> <<>>])
        ELSE IF ~q.ok THEN DocRaise(q.err)
        ELSE IF comp_op = ""
        THEN DocRaise([msg |-> "is not a valid comparator.", field |-> field, term |-> <<>>])
        ELSE Doc(fs[i].key, comp_op, q.qterm)

mongo_search_list(comp, term, field) ==
    LET i == mongo_match_field(field)
        q == convert_term_to_type(field, term, fs[i].typ, {"list"})
    IN  IF i = 0
        THEN DocRaise([msg |-> "not recognised.", field |-> field, term |-> <<>>])
        ELSE IF ~q.ok THEN DocRaise(q.err)
        ELSE Doc(fs[i].key, "$in", q.qterm)

\* a document {op: [docs]}
Docs(op, docs) ==
    [ok |-> TRUE, doc |-> [path |-> "", op |-> op, qterm |-> Absent, docs |-> docs],
     err |-> NoErr]

RECURSIVE mongo_evaluate(_)
RECURSIVE mongo_evaluate_all(_)

\* [oper.evaluate() for oper in operands]: in order, the first error ends it
mongo_evaluate_all(operands) ==
    IF operands = <<>> THEN [ok |-> TRUE, rs |-> <<>>, err |-> NoErr]
    ELSE LET h == mongo_evaluate(Head(operands))
         IN  IF ~h.ok THEN [ok |-> FALSE, rs |-> <<>>, err |-> h.err]
             ELSE LET t == mongo_evaluate_all(Tail(operands))
                  IN  [ok |-> t.ok, rs |-> IF t.ok THEN <<h.doc>> \o t.rs ELSE <<>>,
                       err |-> t.err]

\* {"$not": operand.evaluate()}
mongo_search_not_mut(operand) ==
    LET r == mongo_evaluate(operand)
    IN  IF ~r.ok THEN r ELSE Docs("$not", <<r.doc>>)

mongo_search_not(operand) ==
    LET r == mongo_evaluate(operand)
    IN  IF ~r.ok THEN r ELSE Docs("$nor", <<r.doc>>)

mongo_search_and(operands) ==
    LET r == mongo_evaluate_all(operands)
    IN  IF ~r.ok THEN DocRaise(r.err) ELSE Docs("$and", r.rs)

mongo_search_or(operands) ==
    LET r == mongo_evaluate_all(operands)
    IN  IF ~r.ok THEN DocRaise(r.err) ELSE Docs("$or", r.rs)

mongo_evaluate(node) ==
    CASE node.op = "not" -> mongo_search_not(node.operands[1])
      [] node.op = "and" -> mongo_search_and(node.operands)
      [] node.op = "or" -> mongo_search_or(node.operands)
      [] node.op = "string" -> mongo_search_string(node.term, node.field)
      [] node.op = "number" -> mongo_search_number(node.comp, node.term, node.field)
      [] node.op = "list" -> mongo_search_list(node.comp, node.term, node.field)

(***************************************************************************)
(* The queries of the model, as the grammar parses them: string terms over *)
(* letters, digits and '*' (or quoted), number terms over digits and       *)
(* ':.-', field names over letters.                                        *)
(***************************************************************************)
F_eggs == <<"e", "g", "g", "s">>
F_energy == <<"e", "n", "e", "r", "g", "y">>
F_NM == <<"N", "M">>

T_er == <<"e", "r">>
T_star_er == <<"*", "e", "r">>
T_e_star == <<"e", "*">>
T_e_any == <<"e", "?">>
T_bl_star == <<"b", "l", "*">>
T_t == <<"t">>
T_T == <<"T">>
T_f == <<"f">>
T_2 == <<"2">>
T_4 == <<"4">>
T_5 == <<"5">>
T_9 == <<"9">>
T_1p5 == <<"1", ".", "5">>
T_p5 == <<".", "5">>
T_m1 == <<"-", "1">>
T_2p == <<"2", ".">>
T_dash == <<"-">>
T_dot == <<".">>
T_1c2 == <<"1", ":", "2">>
T_76p8p9 == <<"7", "6", ".", "8", ".", "9">>
T_1990_01_01 == <<"1", "9", "9", "0", "-", "0", "1", "-", "0", "1">>
T_1990_1_1 == <<"1", "9", "9", "0", "-", "1", "-", "1">>
T_2020_14_99 == <<"2", "0", "2", "0", "-", "1", "4", "-", "9", "9">>
T_2020_02_30 == <<"2", "0", "2", "0", "-", "0", "2", "-", "3", "0">>
T_2020_02_29 == <<"2", "0", "2", "0", "-", "0", "2", "-", "2", "9">>
T_a == <<"a">>
T_a_b == <<"a", ",", "b">>

StringLeaves ==
    {SearchString(T_er, F_name), SearchString(T_star_er, F_nm),
     SearchString(T_e_star, F_NM), SearchString(T_e_any, F_name),
     SearchString(T_t, F_flys), SearchString(T_T, F_fy), SearchString(T_f, F_flys),
     SearchString(T_er, F_legs), SearchString(T_bl_star, F_height),
     SearchString(T_er, F_caught), SearchString(T_er, F_eggs)}

NumberLeaves ==
    {SearchNumber(c, T_2, F_legs) : c \in Comparators}
    \cup {SearchNumber(c, T_1p5, F_height) : c \in Comparators}
    \cup {SearchNumber(c, T_1990_01_01, F_caught) : c \in Comparators}
    \cup {SearchNumber(">", t, F_lg) : t \in {T_p5, T_m1, T_2p, T_dash, T_dot, T_1c2, T_1990_01_01}}
    \cup {SearchNumber("<", t, F_cg) :
            t \in {T_1990_1_1, T_2020_14_99, T_2020_02_30, T_2020_02_29, T_2, T_1p5}}
    \cup {SearchNumber(">", T_76p8p9, F_height), SearchNumber(">", T_5, F_name),
          SearchNumber("=", T_9, F_flys), SearchNumber("=", T_dash, F_flys),
          SearchNumber(">", T_4, F_eggs)}

ListLeaves ==
    {SearchList("!", T_a, F_eggs), SearchList("?", T_a_b, F_name),
     SearchList("!", T_a, F_tags), SearchList("?", T_a, F_tg),
     SearchList("!", T_a_b, F_tg), SearchList("?", T_a_b, F_tags)}

Leaves == StringLeaves \cup NumberLeaves \cup ListLeaves

\* the leaves combined by and/or in the queries of the model: two that
\* evaluate to a set and two that name an unknown field
CoreLeaves ==
    {SearchString(T_star_er, F_nm), SearchNumber(">", T_2, F_legs),
     SearchString(T_er, F_eggs), SearchNumber(">", T_4, F_energy)}

\* a list search on an unknown field, a search on a field of the wrong
\* type and a search whose term cannot be converted
OddLeaves ==
    {SearchList("!", T_a, F_eggs), SearchNumber("=", T_dash, F_flys),
     SearchString(T_er, F_legs), SearchNumber(">", T_76p8p9, F_height)}

\* the leaves combined three at a time
TripleLeaves ==
    {SearchString(T_star_er, F_nm), SearchString(T_t, F_flys)}

Pairs == {<<a, b>> : a \in CoreLeaves, b \in CoreLeaves}
OddPairs ==
    {<<SearchString(T_star_er, F_nm), x>> : x \in OddLeaves}
    \cup {<<x, SearchNumber(">", T_2, F_legs)>> : x \in OddLeaves}
Triples == {<<a, b, c>> : a \in TripleLeaves, b \in TripleLeaves, c \in TripleLeaves}

Trees ==
    CoreLeaves \cup OddLeaves
    \cup {SearchNot(a) : a \in CoreLeaves \cup OddLeaves}
    \cup {SearchNot(SearchNot(a)) : a \in CoreLeaves}
    \cup {SearchAnd(p) : p \in Pairs \cup Triples \cup OddPairs}
    \cup {SearchOr(p) : p \in Pairs \cup Triples \cup OddPairs}
    \cup {SearchNot(SearchAnd(p)) : p \in Pairs}
    \cup {SearchOr(<<SearchNot(p[1]), SearchNot(p[2])>>) : p \in Pairs}

\* a query whose search_not takes the operand's set out of universal_set
\* in place
QueryOver_mut(trees) ==
    \E tree \in trees :
        /\ call' = [op |-> "query", objects |-> <<>>, ids |-> <<>>, default |-> TRUE,
                    tree |-> tree]
        /\ result' = query(tree)
        /\ universal_set' = IF tree.op = "not" /\ query(tree).ok
                            THEN query(tree).ids ELSE universal_set
        /\ UNCHANGED <<data, indexes, fs, threads, adder>>

QueryOver(trees) ==
    \E tree \in trees :
        /\ call' = [op |-> "query", objects |-> <<>>, ids |-> <<>>, default |-> TRUE,
                    tree |-> tree]
        /\ result' = query(tree)
        /\ UNCHANGED <<data, indexes, universal_set, fs, threads, adder>>

\* a query combining leaves with not, and, or
Query == QueryOver(Trees)

\* a query of one leaf
QueryLeaf == QueryOver(Leaves)

\* the threads evaluating queries on the one querier.  A thread evaluating
\* tree has the nodes still to be evaluated, in the order evaluate reaches
\* them, in todo, the sets its finished evaluate calls have returned in
\* stack, the number of leaf searches entered in n and what query returns
\* in out; mixed records that it has taken a step while the other thread
\* was in the middle of an evaluation.
\* the local variables of a call of add_objects, and where it is: i, j,
\* the position k in self.fields of the inner loop, and pc
NoAdder == [pc |-> "idle", objects |-> <<>>, identifier_foo |-> None, i |-> 0, j |-> 0, k |-> 0]

Threads == {1, 2}

Idle ==
    [pc |-> "idle", tree |-> NoTree, todo |-> <<>>, stack |-> <<>>, n |-> 0,
     out |-> NoResult, mixed |-> FALSE]

Init ==
    /\ data = <<>>
    /\ indexes = [k \in FieldKeys |-> <<>>]
    /\ universal_set = {}
    /\ call = [op |-> "init", objects |-> <<>>, ids |-> <<>>, default |-> TRUE, tree |-> NoTree]
    /\ result = NoResult
    /\ fs = FieldSpecification(RegisteredFields)
    /\ threads = [t \in Threads |-> Idle]
    /\ adder = NoAdder

Next == AddObjects \/ Query

Spec == Init /\ [][Next]_vars

NextLeaf == AddObjects \/ QueryLeaf

\* the querier asked one-leaf queries: the leaf searches on their own
SpecLeaf == Init /\ [][NextLeaf]_vars

\* add_objects(objects) with identifier_foo left at None
AddDefault ==
    \E objects \in Batches :
        /\ Cardinality(universal_set) + Len(objects) <= MaxObjects
        /\ add_objects(objects, None)
        /\ UNCHANGED <<fs, threads, adder>>

NextDefault == AddDefault \/ QueryLeaf

SpecDefault == Init /\ [][NextDefault]_vars

(***************************************************************************)
(* One string search given to the three backends built on the same         *)
(* fields: ObjectListQuery.search_string, FieldSpecification               *)
(* .convert_string (the conversion of SQLiteQuery.search_string) and       *)
(* MongoQuery.search_string.                                               *)
(***************************************************************************)
F_FLYS == <<"F", "L", "Y", "S">>
T_F == <<"F">>
T_true == <<"t", "r", "u", "e">>
T_0 == <<"0">>
T_1 == <<"1">>

BoolTerms == {T_t, T_T, T_f, T_F, T_true, T_er, T_e_star, T_star_er, T_0, T_1}

StringSearchFields == {F_flys, F_fy, F_FLYS, F_name, F_NM, F_legs, F_eggs}

StringSearches ==
    \E term \in BoolTerms, field \in StringSearchFields :
        /\ call' = [op |-> "search_string", objects |-> <<>>, ids |-> <<>>, default |-> TRUE,
                    tree |-> SearchString(term, field)]
        /\ result' = [object_list |-> search_string(term, field, 0),
                      sqlite |-> convert_string(field, term),
                      mongo |-> mongo_search_string(term, field)]
        /\ UNCHANGED <<data, indexes, universal_set, fs, threads, adder>>

NextConvert == AddObjects \/ StringSearches

SpecConvert == Init /\ [][NextConvert]_vars

(***************************************************************************)
(* The grammar of Query._create_grammar and Query.query on a query string. *)
(* A query string is a sequence of tokens: a leaf (a whole search          *)
(* expression term[field], as str_srch, num_srch or lst_srch match it),    *)
(* one of the words and, or, not, a parenthesis, a word without a field    *)
(* ("word"), or a character nothing in the grammar matches ("#").          *)
(*                                                                         *)
(* operatorPrecedence(all_srch, [not, and, or]) builds one level per       *)
(* operator, in the order of the list, each level on top of the one        *)
(* before: level 0 is all_srch | "(" + expression + ")", level 1 is        *)
(* not, level 2 is and, level 3 (the expression) is or.  A level first     *)
(* looks ahead for operand-operator-operand and otherwise is the level     *)
(* below.  A word where a leaf is expected matches Word(...) and then      *)
(* fails at "- field": that error is fatal (ParseSyntaxException), not     *)
(* backtracked over, except inside a look-ahead, which turns it into an    *)
(* ordinary failure.                                                       *)
(***************************************************************************)
Tok(kind) == [kind |-> kind, leaf |-> NoTree]

LeafTok(leaf) == [kind |-> "leaf", leaf |-> leaf]

\* the tokens Word(alphanums + '*') matches that are not followed by a field
Words == {"and", "or", "not", "word"}

ParseOk(tree, pos) == [ok |-> TRUE, fatal |-> FALSE, tree |-> tree, pos |-> pos]

ParseFail == [ok |-> FALSE, fatal |-> FALSE, tree |-> NoTree, pos |-> 0]

ParseFatal == [ok |-> FALSE, fatal |-> TRUE, tree |-> NoTree, pos |-> 0]

\* the operators of the levels with 'or' below 'and'
level_operator_mut(lvl) == IF lvl = 2 THEN "or" ELSE "and"

\* the operator of a level: (and_, 2, LEFT) comes before (or_, 2, LEFT)
level_operator(lvl) == IF lvl = 2 THEN "and" ELSE "or"

\* SearchAnd / SearchOr on tokens[0][0::2]
level_node(lvl, operands) ==
    IF level_operator(lvl) = "and" THEN SearchAnd(operands) ELSE SearchOr(operands)

RECURSIVE parse_level(_, _, _)
RECURSIVE parse_more(_, _, _, _, _)

\* level lvl of the grammar at position p of ts
parse_level(lvl, ts, p) ==
    IF lvl = 0
    THEN IF p > Len(ts) THEN ParseFail
         ELSE IF ts[p].kind = "leaf" THEN ParseOk(ts[p].leaf, p + 1)
         ELSE IF ts[p].kind \in Words THEN ParseFatal
         ELSE IF ts[p].kind = "("
         THEN LET r == parse_level(3, ts, p + 1)
              IN  IF r.fatal THEN ParseFatal
                  ELSE IF r.ok /\ r.pos <= Len(ts) /\ ts[r.pos].kind = ")"
                  THEN ParseOk(r.tree, r.pos + 1)
                  ELSE ParseFail
         ELSE ParseFail
    ELSE IF lvl = 1
    THEN IF p <= Len(ts) /\ ts[p].kind = "not" /\ parse_level(1, ts, p + 1).ok
         THEN ParseOk(SearchNot(parse_level(1, ts, p + 1).tree),
                      parse_level(1, ts, p + 1).pos)
         ELSE parse_level(0, ts, p)
    ELSE LET first == parse_level(lvl - 1, ts, p)
         IN  IF ~first.ok THEN first
             ELSE parse_more(lvl, ts, first.pos, <<first.tree>>, first)

\* OneOrMore(operator + operand) after the first operand; the look-ahead
\* has failed where not even one follows, and the level is its first operand
parse_more(lvl, ts, pos, operands, first) ==
    LET done == IF Len(operands) = 1 THEN first
                ELSE ParseOk(level_node(lvl, operands), pos)
    IN  IF pos <= Len(ts) /\ ts[pos].kind = level_operator(lvl)
        THEN LET b == parse_level(lvl - 1, ts, pos + 1)
             IN  IF b.fatal THEN (IF Len(operands) = 1 THEN first ELSE ParseFatal)
                 ELSE IF ~b.ok THEN done
                 ELSE parse_more(lvl, ts, b.pos, Append(operands, b.tree), first)
        ELSE done

\* self.grammar.parseString(query): the expression at the start of the
\* string; what follows it is not looked at
parseString(ts) == parse_level(3, ts, 1)

\* Query.query, with ObjectListQuery.query around it
query_string(ts) ==
    IF ~parseString(ts).ok
    THEN [ok |-> FALSE, ids |-> {},
          err |-> [msg |-> "The query cannot be parsed.", field |-> <<>>, term |-> <<>>],
          n |-> 0, ret |-> <<>>]
    ELSE query(parseString(ts).tree)

\* the query strings of the model: every string of up to two tokens, and
\* longer ones over three leaves
LeafA == LeafTok(SearchString(T_star_er, F_nm))
LeafB == LeafTok(SearchNumber(">", T_2, F_legs))
LeafC == LeafTok(SearchString(T_t, F_flys))

Tokens ==
    {LeafA, LeafB, Tok("and"), Tok("or"), Tok("not"), Tok("("), Tok(")"), Tok("#"),
     Tok("word")}

ShortStrings == {<<>>} \cup {<<a>> : a \in Tokens} \cup {<<a, b>> : a \in Tokens, b \in Tokens}

LongStrings ==
    {<<a, Tok(o1), LeafB, Tok(o2), LeafC>> :
        a \in {LeafA}, o1 \in {"and", "or"}, o2 \in {"and", "or"}}
    \cup {<<LeafC, Tok(o1), LeafA, Tok(o2), LeafB>> : o1 \in {"and", "or"}, o2 \in {"and", "or"}}
    \cup {<<Tok("("), LeafA, Tok("or"), LeafB, Tok(")"), Tok("and"), LeafC>>,
          <<LeafA, Tok("and"), Tok("("), LeafB, Tok("or"), LeafC, Tok(")")>>,
          <<Tok("not"), LeafA, Tok("and"), LeafB>>,
          <<Tok("not"), Tok("("), LeafA, Tok("or"), LeafB, Tok(")")>>,
          <<LeafA, Tok("and"), Tok("not"), LeafB>>,
          <<LeafA, Tok("and"), LeafB, Tok(")")>>,
          <<LeafA, Tok("or"), LeafB, Tok("#")>>,
          <<Tok("("), LeafA, Tok(")"), Tok(")")>>,
          <<Tok("("), LeafA, Tok("or"), LeafB>>,
          <<LeafA, Tok("and"), LeafB, Tok("or")>>,
          <<LeafA, Tok("and"), LeafB, Tok("and"), Tok("and")>>,
          <<LeafA, Tok("and"), LeafB, Tok("and"), Tok("word")>>,
          <<LeafA, Tok("or"), Tok("("), LeafB, Tok("and")>>,
          <<LeafA, Tok("and"), LeafB, LeafC>>,
          <<Tok("not"), LeafA, Tok(")")>>,
          <<LeafA, Tok("#"), LeafB>>}

QueryStrings == ShortStrings \cup LongStrings

QueryString ==
    \E ts \in QueryStrings :
        /\ call' = [op |-> "query", objects |-> <<>>, ids |-> <<>>, default |-> TRUE,
                    tree |-> parseString(ts).tree, text |-> ts]
        /\ result' = query_string(ts)
        /\ UNCHANGED <<data, indexes, universal_set, fs, threads, adder>>

NextParse == AddObjects \/ QueryString

SpecParse == Init /\ [][NextParse]_vars

(***************************************************************************)
(* FieldSpecification constructed from a dict of fields and asked to match *)
(* a field name.  The constructor takes any dict: its keys are distinct as *)
(* tuples (full, abbr, type), nothing more.                                *)
(***************************************************************************)
F_Name == <<"N", "a", "m", "e">>
F_LEGS == <<"L", "E", "G", "S">>
F_LG == <<"L", "G">>
F_number == <<"n", "u", "m", "b", "e", "r">>
F_n == <<"n">>
F_l == <<"l">>

Field(full, abbr, typ, key) == [full |-> full, abbr |-> abbr, typ |-> typ, key |-> key]

Registrations ==
    {RegisteredFields,
     <<>>,
     <<Field(F_Name, F_NM, "str", "name"), Field(F_LEGS, F_LG, "int", "legs")>>,
     <<Field(F_name, F_nm, "str", "name"), Field(F_number, F_nm, "int", "number")>>,
     <<Field(F_number, F_nm, "int", "number"), Field(F_name, F_nm, "str", "name")>>,
     <<Field(F_name, F_nm, "str", "name"), Field(F_nm, F_n, "int", "number")>>,
     <<Field(F_Name, F_nm, "str", "name"), Field(F_name, F_NM, "str", "number")>>,
     <<Field(F_legs, F_lg, "int", "legs"), Field(F_LEGS, F_l, "float", "height")>>,
     <<Field(F_name, F_nm, "str", "name"), Field(F_legs, F_lg, "int", "legs"),
       Field(F_flys, F_fy, "bool", "flys")>>}

\* FieldSpecification(fields)
Construct ==
    \E registered \in Registrations :
        /\ fs' = FieldSpecification(registered)
        /\ call' = [op |-> "construct", objects |-> <<>>, ids |-> <<>>, default |-> TRUE,
                    tree |-> NoTree, registered |-> registered]
        /\ result' = NoResult
        /\ UNCHANGED <<data, indexes, universal_set, threads, adder>>

MatchNames ==
    {F_name, F_Name, F_nm, F_NM, F_n, F_number, F_legs, F_LEGS, F_lg, F_LG, F_l,
     F_flys, F_FLYS, F_fy, F_caught, F_cg, F_height, F_hg, F_tags, F_tg, F_eggs}

\* self.fields.match(field), and self._match_field(field) of an
\* ObjectListQuery with the fields of the fixture
Match ==
    \E field \in MatchNames :
        /\ call' = [op |-> "match", objects |-> <<>>, ids |-> <<>>, default |-> TRUE,
                    tree |-> NoTree, field |-> field]
        /\ result' = [ok |-> match(field) # 0, i |-> match(field),
                      object_list |-> _match_field(field)]
        /\ UNCHANGED <<data, indexes, universal_set, fs, threads, adder>>

NextFields == Construct \/ Match

SpecFields == Init /\ [][NextFields]_vars

(***************************************************************************)
(* SQLiteQuery: the WHERE clause rendered from a parsed query, as text.    *)
(* self.fields is a FieldSpecification (fs) whose values are the column    *)
(* names.                                                                  *)
(***************************************************************************)
\* str(op) for the column names of the model
ColumnText(key) ==
    CASE key = "name" -> <<"n", "a", "m", "e">>
      [] key = "caught" -> <<"c", "a", "u", "g", "h", "t">>
      [] key = "height" -> <<"h", "e", "i", "g", "h", "t">>
      [] key = "legs" -> <<"l", "e", "g", "s">>
      [] key = "flys" -> <<"f", "l", "y", "s">>
      [] key = "tags" -> <<"t", "a", "g", "s">>
      [] key = "number" -> <<"n", "u", "m", "b", "e", "r">>

\* the string literals of sqlitequery.py
SqlText ==
    [quote |-> <<"\"">>,
     like |-> <<" ", "L", "I", "K", "E", " ", "'">>,
     apostrophe |-> <<"'">>,
     equals |-> <<" ", "=", " ">>,
     space |-> <<" ">>,
     cast |-> <<"C", "A", "S", "T", "(", "s", "t", "r", "f", "t", "i", "m", "e",
          "(", "'", "%", "s", "'", ",", " ">>,
     as_int |-> <<")", " ", "A", "S", " ", "I", "N", "T", ")", " ">>,
     in |-> <<" ", "I", "N", " ", "(">>,
     not |-> <<"N", "O", "T", " ", "(">>,
     open |-> <<"(">>,
     close |-> <<")">>,
     and |-> <<" ", "A", "N", "D", " ">>,
     or |-> <<" ", "O", "R", " ">>,
     comma |-> <<",">>,
     select |-> <<"S", "E", "L", "E", "C", "T", " ", "*", " ", "F", "R", "O", "M", " ">>,
     where |-> <<" ", "W", "H", "E", "R", "E", " ">>,
     table |-> <<"z", "o", "o">>]

RECURSIVE join(_, _)
\* sep.join(texts)
join(sep, texts) ==
    IF texts = <<>> THEN <<>>
    ELSE IF Len(texts) = 1 THEN texts[1]
    ELSE texts[1] \o sep \o join(sep, Tail(texts))

\* qterm.replace("*", "%")
stars_to_percent(s) == [i \in 1..Len(s) |-> IF s[i] = "*" THEN "%" ELSE s[i]]

DigitChar(d) == <<"0", "1", "2", "3", "4", "5", "6", "7", "8", "9">>[d + 1]

RECURSIVE str_nat(_)
str_nat(n) == IF n < 10 THEN <<DigitChar(n)>> ELSE str_nat(n \div 10) \o <<DigitChar(n % 10)>>

\* str(n) of an int
str_int(n) == IF n < 0 THEN <<"-">> \o str_nat(-n) ELSE str_nat(n)

\* the days from 1970-01-01 to the date y-m-d of the proleptic Gregorian
\* calendar
days_from_civil(y, m, d) ==
    LET yy == IF m <= 2 THEN y - 1 ELSE y
        era == yy \div 400
        yoe == yy - era * 400
        doy == (153 * (IF m > 2 THEN m - 3 ELSE m + 9) + 2) \div 5 + d - 1
        doe == yoe * 365 + yoe \div 4 - yoe \div 100 + doy
    IN  era * 146097 + doe - 719468

\* the offset from UTC, in seconds, of the local time of the process
utcoffset == 0

\* int(qterm.timestamp()) of the naive datetime of a date value
timestamp(v) ==
    days_from_civil(v.n \div 10000, (v.n \div 100) % 100, v.n % 100) * 86400 - utcoffset

SqlOk(sql) == [ok |-> TRUE, sql |-> sql, err |-> NoErr]

SqlRaise(err) == [ok |-> FALSE, sql |-> <<>>, err |-> err]

quoted(i) == SqlText.quote \o ColumnText(fs[i].key) \o SqlText.quote

sqlite_search_string(term, field) ==
    LET c == convert_string(field, term)
    IN  IF ~c.ok THEN SqlRaise(c.err)
        ELSE IF c.qterm.t = "str"
        THEN SqlOk(quoted(c.i) \o SqlText.like \o stars_to_percent(c.qterm.s) \o SqlText.apostrophe)
        ELSE SqlOk(quoted(c.i) \o SqlText.equals \o str_int(c.qterm.n))

sqlite_search_number(comp, term, field) ==
    LET c == convert_numeric(field, term)
    IN  IF ~c.ok THEN SqlRaise(c.err)
        ELSE IF c.qterm.t = "float"
        THEN SqlOk(quoted(c.i) \o SqlText.space \o <<comp>> \o SqlText.space \o term)
        ELSE SqlOk(SqlText.cast \o quoted(c.i) \o SqlText.as_int \o <<comp>> \o SqlText.space
                   \o str_int(timestamp(c.qterm)))

sqlite_search_list(comp, term, field) ==
    LET c == convert_list(field, term)
    IN  IF ~c.ok THEN SqlRaise(c.err)
        ELSE SqlOk(quoted(c.i) \o SqlText.in \o join(SqlText.comma, c.qterm.l) \o SqlText.close)

RECURSIVE sqlite_evaluate(_)
RECURSIVE sqlite_evaluate_all(_)

\* [oper.evaluate() for oper in operands]: in order, the first error ends it
sqlite_evaluate_all(operands) ==
    IF operands = <<>> THEN [ok |-> TRUE, rs |-> <<>>, err |-> NoErr]
    ELSE LET h == sqlite_evaluate(Head(operands))
         IN  IF ~h.ok THEN [ok |-> FALSE, rs |-> <<>>, err |-> h.err]
             ELSE LET t == sqlite_evaluate_all(Tail(operands))
                  IN  [ok |-> t.ok, rs |-> <<h.sql>> \o t.rs, err |-> t.err]

\* 'NOT ' + operands.evaluate(), as SQLQuery has it
sqlite_search_not_mut(operand) ==
    LET r == sqlite_evaluate(operand)
    IN  IF ~r.ok THEN r ELSE SqlOk(<<"N", "O", "T", " ">> \o r.sql)

sqlite_search_not(operand) ==
    LET r == sqlite_evaluate(operand)
    IN  IF ~r.ok THEN r ELSE SqlOk(SqlText.not \o r.sql \o SqlText.close)

sqlite_search_and(operands) ==
    LET r == sqlite_evaluate_all(operands)
    IN  IF ~r.ok THEN SqlRaise(r.err) ELSE SqlOk(SqlText.open \o join(SqlText.and, r.rs) \o SqlText.close)

sqlite_search_or(operands) ==
    LET r == sqlite_evaluate_all(operands)
    IN  IF ~r.ok THEN SqlRaise(r.err) ELSE SqlOk(SqlText.open \o join(SqlText.or, r.rs) \o SqlText.close)

sqlite_evaluate(node) ==
    CASE node.op = "not" -> sqlite_search_not(node.operands[1])
      [] node.op = "and" -> sqlite_search_and(node.operands)
      [] node.op = "or" -> sqlite_search_or(node.operands)
      [] node.op = "string" -> sqlite_search_string(node.term, node.field)
      [] node.op = "number" -> sqlite_search_number(node.comp, node.term, node.field)
      [] node.op = "list" -> sqlite_search_list(node.comp, node.term, node.field)

\* SQLiteQuery.query on a parsed query: where is the clause alone
sqlite_query(tree) ==
    LET r == sqlite_evaluate(tree)
    IN  [ok |-> r.ok,
         sql |-> IF r.ok THEN SqlText.select \o SqlText.table \o SqlText.where \o r.sql ELSE <<>>,
         where |-> r.sql, err |-> r.err]

SqlLeaves ==
    {SearchString(T_star_er, F_nm), SearchString(T_t, F_flys), SearchString(T_er, F_legs),
     SearchNumber(">", T_2, F_legs), SearchNumber("<", T_1990_01_01, F_cg),
     SearchNumber("=", T_dash, F_lg), SearchList("?", T_a_b, F_tags),
     SearchString(T_er, F_eggs)}

SqlPairs == {<<a, b>> : a \in SqlLeaves, b \in SqlLeaves}

SqlTrees ==
    Leaves
    \cup {SearchNot(a) : a \in SqlLeaves}
    \cup {SearchAnd(p) : p \in SqlPairs}
    \cup {SearchOr(p) : p \in SqlPairs}
    \cup {SearchNot(SearchAnd(<<a, SearchOr(<<a, b>>)>>)) : a \in SqlLeaves, b \in SqlLeaves}
    \cup {SearchAnd(<<SearchString(T_star_er, F_nm), SearchNumber(">", T_2, F_legs),
                      SearchNot(SearchList("?", T_a_b, F_tags))>>),
          SearchOr(<<SearchString(T_star_er, F_nm), SearchNumber(">", T_2, F_legs),
                     SearchString(T_t, F_flys)>>)}

\* SQLiteQuery(fields, table).query(...)
SqliteQuery ==
    \E tree \in SqlTrees :
        /\ call' = [op |-> "sqlite_query", objects |-> <<>>, ids |-> <<>>, default |-> TRUE,
                    tree |-> tree]
        /\ result' = sqlite_query(tree)
        /\ UNCHANGED <<data, indexes, universal_set, fs, threads, adder>>

NextSqlite == Construct \/ SqliteQuery

SpecSqlite == Init /\ [][NextSqlite]_vars

\* MongoQuery(fields).query(...) on a parsed query: Query.query returns
\* what the root node evaluates to
MongoQuery ==
    \E tree \in SqlTrees :
        /\ call' = [op |-> "mongo_query", objects |-> <<>>, ids |-> <<>>, default |-> TRUE,
                    tree |-> tree]
        /\ result' = mongo_evaluate(tree)
        /\ UNCHANGED <<data, indexes, universal_set, fs, threads, adder>>

NextMongo == Construct \/ MongoQuery

SpecMongo == Init /\ [][NextMongo]_vars

(***************************************************************************)
(* PubMedParser (src/pubmed_queries/pubmed_parser.py) over a list of Field *)
(* objects (src/pubmed_parser/field.py).  In this part fs is the list      *)
(* self.fields of the parser; each Field holds its own index_mapping and   *)
(* universal_set, filled by reset_entries.  A query is the token string of *)
(* the grammar above, the empty string being the empty sequence.           *)
(***************************************************************************)
upper(s) ==
    [i \in 1..Len(s) |->
        IF \E j \in 1..Len(LowerCase) : LowerCase[j] = s[i]
        THEN UpperCase[CHOOSE j \in 1..Len(LowerCase) : LowerCase[j] = s[i]]
        ELSE s[i]]

\* StringField / NumericField / BooleanField (full_name, abbr_name,
\* entry_mapping = lambda x: x[key]); type "float" stands for (float, int)
PubMedField(full_name, abbr_name, type, key) ==
    [full |-> full_name, abbr |-> abbr_name, typ |-> type, key |-> key,
     index_mapping |-> <<>>, universal_set |-> {}]

\* Field.reset_entries(entries) on one field
reset_entries(field, entries) ==
    LET value(idx) == foo(field, entries[idx])
        kept == {idx \in DOMAIN entries :
                    /\ value(idx).t # "absent"
                    /\ CASE field.typ = "str" -> value(idx).t = "str" /\ value(idx).s # <<>>
                         [] field.typ = "float" ->
                                value(idx).t \in {"float", "int", "bool"} /\ value(idx).n # 0
                         [] field.typ = "bool" -> value(idx).t = "bool"}
    IN  [field EXCEPT !.index_mapping = [idx \in kept |-> value(idx)],
                      !.universal_set = DOMAIN entries]

\* Field.match_field: the position of the first field matched, 0 for None
pubmed_match_field(flds, field_name) ==
    LET hits == {i \in 1..Len(flds) :
                    \/ flds[i].full = lower(field_name)
                    \/ flds[i].abbr = upper(field_name)}
    IN  IF hits = {} THEN 0 ELSE CHOOSE i \in hits : \A j \in hits : i <= j

\* get_entry_set of StringField, BooleanField and NumericField
get_entry_set(field, value, operator) ==
    LET wrapped == (IF value[1] # "*" THEN <<"*">> ELSE <<>>) \o value
                   \o (IF value[Len(value)] # "*" THEN <<"*">> ELSE <<>>)
        bvalue == \E i \in 1..Len(value) : value[i] \in {"t", "T"}
        q == float(value)
        m == field.index_mapping
    IN  CASE field.typ = "str" -> {idx \in DOMAIN m : translate_match(wrapped, m[idx].s)}
          [] field.typ = "bool" -> {idx \in DOMAIN m : (m[idx].n = 1) = bvalue}
          [] field.typ = "float" ->
                IF ~q.ok THEN {}
                ELSE CASE operator = "=" -> {idx \in DOMAIN m : m[idx].n * q.d = q.n * m[idx].d}
                       [] operator = ">" -> {idx \in DOMAIN m : m[idx].n * q.d >= q.n * m[idx].d}
                       [] operator = "<" -> {idx \in DOMAIN m : m[idx].n * q.d <= q.n * m[idx].d}

\* Field.get_field_entry_set
get_field_entry_set(flds, field_name, value, operator) ==
    LET i == pubmed_match_field(flds, field_name)
    IN  IF i # 0 THEN get_entry_set(flds[i], value, operator) ELSE {}

RECURSIVE evaluate_expression(_, _)
\* SearchNot / SearchAnd / SearchOr / SearchString / SearchNumber
\* .evaluate_expression
evaluate_expression(node, flds) ==
    LET rs == [j \in 1..Len(node.operands) |-> evaluate_expression(node.operands[j], flds)]
    IN  CASE node.op = "not" -> flds[1].universal_set \ rs[1]
          [] node.op = "and" -> {idx \in rs[1] : \A j \in 1..Len(rs) : idx \in rs[j]}
          [] node.op = "or" -> UNION {rs[j] : j \in 1..Len(rs)}
          [] node.op = "string" -> get_field_entry_set(flds, node.field, node.term, "=")
          [] node.op = "number" -> get_field_entry_set(flds, node.field, node.term, node.comp)

\* Field.get_full_name
get_full_name(flds, name) ==
    LET hits == {i \in 1..Len(flds) : lower(name) = lower(flds[i].abbr)}
    IN  IF hits = {} THEN name
        ELSE flds[CHOOSE i \in hits : \A j \in hits : i <= j].full

RECURSIVE to_sql(_, _)
\* SearchNot / SearchAnd / SearchOr / SearchString / SearchNumber .to_sql
to_sql(node, flds) ==
    LET rs == [j \in 1..Len(node.operands) |-> to_sql(node.operands[j], flds)]
        nom == SqlText.quote \o get_full_name(flds, node.field) \o SqlText.quote
    IN  CASE node.op = "not" -> <<"N", "O", "T", " ">> \o rs[1]
          [] node.op = "and" -> SqlText.open \o join(SqlText.and, rs) \o SqlText.close
          [] node.op = "or" -> SqlText.open \o join(SqlText.or, rs) \o SqlText.close
          [] node.op = "string" ->
                nom \o SqlText.like \o stars_to_percent(node.term) \o SqlText.apostrophe
          [] node.op = "number" ->
                nom \o SqlText.space \o <<node.comp>> \o SqlText.space \o node.term

RECURSIVE get_key_values(_)
\* get_key_values(parse_result[0].to_json(), 'field'): the field of every
\* leaf, in the order written
get_key_values(node) ==
    IF node.operands = <<>> THEN <<node.field>>
    ELSE LET rs == [j \in 1..Len(node.operands) |-> get_key_values(node.operands[j])]
         IN  join(<<>>, rs)

\* Field.check_field_names
check_field_names(flds, field_names) ==
    SelectSeq(field_names, LAMBDA name : pubmed_match_field(flds, name) = 0)

\* the characters of expr that balanced looks at: a leaf term[field] has
\* the brackets of its field
brackets(ts) ==
    join(<<>>, [j \in 1..Len(ts) |->
                  CASE ts[j].kind = "leaf" -> <<"[", "]">>
                    [] ts[j].kind \in {"(", ")"} -> <<ts[j].kind>>
                    [] OTHER -> <<>>])

RECURSIVE balanced(_)
\* balanced on my_string: pairs of adjacent brackets are taken out until
\* none is left
balanced(my_string) ==
    LET pairs == {i \in 1..(Len(my_string) - 1) :
                     <<my_string[i], my_string[i + 1]>> \in {<<"(", ")">>, <<"[", "]">>}}
        i == CHOOSE i \in pairs : \A j \in pairs : i <= j
    IN  IF pairs = {} THEN my_string = <<>>
        ELSE balanced(SubSeq(my_string, 1, i - 1) \o SubSeq(my_string, i + 2, Len(my_string)))

\* what a method of the parser returns or raises; steps are the checks and
\* the grammar it went through
PubMedResult(ok, msg, ids, field_names, sql, steps) ==
    [ok |-> ok, err |-> [msg |-> msg, field |-> <<>>, term |-> <<>>], ids |-> ids,
     field_names |-> field_names, sql |-> sql, steps |-> steps]

\* PubMedParser._parse_query; tree is what it returns with the field names
_parse_query(qry) ==
    LET p == parseString(qry)
        field_names == get_key_values(p.tree)
    IN  IF ~balanced(brackets(qry))
        THEN [ok |-> FALSE, msg |-> "Is unbalanced", tree |-> NoTree, field_names |-> <<>>,
              steps |-> <<"balanced">>]
        ELSE IF ~p.ok
        THEN [ok |-> FALSE, msg |-> "Cannot be parsed", tree |-> NoTree, field_names |-> <<>>,
              steps |-> <<"balanced", "parseString">>]
        ELSE IF check_field_names(fs, field_names) # <<>>
        THEN [ok |-> FALSE, msg |-> "Non-valid flds", tree |-> NoTree,
              field_names |-> check_field_names(fs, field_names),
              steps |-> <<"balanced", "parseString", "check_field_names">>]
        ELSE [ok |-> TRUE, msg |-> "", tree |-> p.tree, field_names |-> field_names,
              steps |-> <<"balanced", "parseString", "check_field_names">>]

\* the test 'if not query' on no query at all
get_object_set_mut(qry) ==
    LET p == _parse_query(qry)
    IN  IF ~p.ok THEN PubMedResult(FALSE, p.msg, {}, p.field_names, <<>>, p.steps)
        ELSE PubMedResult(TRUE, "", evaluate_expression(p.tree, fs), <<>>, <<>>, p.steps)

\* PubMedParser.get_object_set
get_object_set(qry) ==
    LET p == _parse_query(qry)
    IN  IF qry = <<>>
        THEN IF fs = <<>> THEN PubMedResult(FALSE, "IndexError", {}, <<>>, <<>>, <<>>)
             ELSE PubMedResult(TRUE, "", fs[1].universal_set, <<>>, <<>>, <<>>)
        ELSE IF ~p.ok THEN PubMedResult(FALSE, p.msg, {}, p.field_names, <<>>, p.steps)
        ELSE PubMedResult(TRUE, "", evaluate_expression(p.tree, fs), <<>>, <<>>, p.steps)

\* PubMedParser.get_sql_query; its pair (field_names, sql)
get_sql_query(qry, table_name) ==
    LET p == _parse_query(qry)
    IN  IF qry = <<>>
        THEN PubMedResult(TRUE, "", {}, <<>>, SqlText.select \o table_name, <<>>)
        ELSE IF ~p.ok THEN PubMedResult(FALSE, p.msg, {}, p.field_names, <<>>, p.steps)
        ELSE PubMedResult(TRUE, "", {}, p.field_names,
                          SqlText.select \o table_name \o SqlText.where \o to_sql(p.tree, fs),
                          p.steps)

PubMedFields ==
    {<<>>,
     <<PubMedField(F_name, F_NM, "str", "name"), PubMedField(F_legs, F_LG, "float", "legs")>>,
     <<PubMedField(F_legs, F_LG, "float", "legs"), PubMedField(F_flys, F_FLYS, "bool", "flys"),
       PubMedField(F_name, F_NM, "str", "name")>>}

\* the index:entry maps given to reset_entries
Entries == {<<>>, (1 :> ObjEr) @@ (2 :> ObjBer), (7 :> ObjEra) @@ (2 :> ObjBer)}

\* the queries given to the parser: the empty string, one token, and the
\* longer strings
PubMedQueries == {<<>>} \cup {<<a>> : a \in Tokens} \cup LongStrings

\* self.fields[i].reset_entries(entries), by the owner of the parser
ResetEntries ==
    \E i \in 1..Len(fs), entries \in Entries :
        /\ fs' = [fs EXCEPT ![i] = reset_entries(fs[i], entries)]
        /\ call' = [op |-> "reset_entries", objects |-> <<>>, ids |-> <<>>, default |-> TRUE,
                    tree |-> NoTree, text |-> <<>>]
        /\ result' = NoResult
        /\ UNCHANGED <<data, indexes, universal_set, threads, adder>>

GetObjectSet ==
    \E qry \in PubMedQueries :
        /\ call' = [op |-> "get_object_set", objects |-> <<>>, ids |-> <<>>, default |-> TRUE,
                    tree |-> NoTree, text |-> qry]
        /\ result' = get_object_set(qry)
        /\ UNCHANGED <<data, indexes, universal_set, fs, threads, adder>>

GetSqlQuery ==
    \E qry \in PubMedQueries :
        /\ call' = [op |-> "get_sql_query", objects |-> <<>>, ids |-> <<>>, default |-> TRUE,
                    tree |-> NoTree, text |-> qry]
        /\ result' = get_sql_query(qry, SqlText.table)
        /\ UNCHANGED <<data, indexes, universal_set, fs, threads, adder>>

\* PubMedParser(fields)
InitPubMed ==
    /\ fs \in PubMedFields
    /\ data = <<>>
    /\ indexes = [k \in FieldKeys |-> <<>>]
    /\ universal_set = {}
    /\ call = [op |-> "init", objects |-> <<>>, ids |-> <<>>, default |-> TRUE,
               tree |-> NoTree, text |-> <<>>]
    /\ result = NoResult
    /\ threads = [t \in Threads |-> Idle]
    /\ adder = NoAdder

NextPubMed == ResetEntries \/ GetObjectSet \/ GetSqlQuery

SpecPubMed == InitPubMed /\ [][NextPubMed]_vars

(***************************************************************************)
(* The calls of an evaluation, in the order they are made.  A call is made *)
(* by the evaluate method of a node ("evaluate") or by a method of the     *)
(* backend; passing says what the argument is: the operand as a node, the  *)
(* operands as nodes, results of operands, or the term and field of a      *)
(* leaf.  A call that raises ends the evaluation.                          *)
(***************************************************************************)
Called(by, calls, passing, node) ==
    [by |-> by, calls |-> calls, passing |-> passing, node |-> node]

\* the search method the evaluate of a node calls
search_method(node) ==
    CASE node.op = "not" -> "search_not"
      [] node.op = "and" -> "search_and"
      [] node.op = "or" -> "search_or"
      [] node.op = "string" -> "search_string"
      [] node.op = "number" -> "search_number"
      [] node.op = "list" -> "search_list"

RECURSIVE dispatch(_)
RECURSIVE dispatch_all(_, _)

\* operand.evaluate() / [oper.evaluate() for oper in operands] in the
\* method by of the backend
dispatch_all(by, operands) ==
    IF operands = <<>> THEN <<>>
    ELSE <<Called(by, "evaluate", "", Head(operands))>>
         \o dispatch(Head(operands))
         \o (IF evaluate(Head(operands), 0).ok THEN dispatch_all(by, Tail(operands))
             ELSE <<>>)

\* evaluate of every node handing search_not / search_and / search_or the
\* results of the operands, which it has evaluated itself
dispatch_mut(node) ==
    IF node.op \in {"string", "number", "list"}
    THEN <<Called("evaluate", search_method(node), "term", node)>>
    ELSE dispatch_all("evaluate", node.operands)
         \o (IF evaluate(node, 0).ok \/ node.op = "not"
             THEN <<Called("evaluate", search_method(node), "results", node)>>
             ELSE <<>>)

\* node.evaluate(): parent.search_not(self.oper),
\* parent.search_and(self.operands), ..., parent.search_string(self.term,
\* self.field), ..., and what the method called does
dispatch(node) ==
    IF node.op \in {"string", "number", "list"}
    THEN <<Called("evaluate", search_method(node), "term", node)>>
    ELSE <<Called("evaluate", search_method(node), "nodes", node)>>
         \o dispatch_all(search_method(node), node.operands)

\* the queries whose calls are followed
DispatchTrees ==
    OddLeaves \cup TripleLeaves
    \cup {SearchNot(a) : a \in OddLeaves \cup TripleLeaves}
    \cup {SearchAnd(p) : p \in OddPairs \cup Triples}
    \cup {SearchOr(p) : p \in OddPairs \cup Triples}
    \cup {SearchNot(SearchAnd(<<a, b>>)) : a \in TripleLeaves, b \in TripleLeaves}
    \cup {SearchOr(<<SearchNot(a), SearchAnd(<<a, b>>)>>) :
            a \in TripleLeaves, b \in TripleLeaves}

\* ObjectListQuery.query on a parsed query, with the calls it makes
Dispatch ==
    \E tree \in DispatchTrees :
        /\ call' = [op |-> "dispatch", objects |-> <<>>, ids |-> <<>>, default |-> TRUE,
                    tree |-> tree]
        /\ result' = [out |-> query(tree), calls |-> dispatch(tree)]
        /\ UNCHANGED <<data, indexes, universal_set, fs, threads, adder>>

NextDispatch == AddObjects \/ Dispatch

SpecDispatch == Init /\ [][NextDispatch]_vars

(***************************************************************************)
(* Two threads querying one ObjectListQuery, a step at a time.  The steps  *)
(* of an evaluation are the returns of the evaluate calls, innermost       *)
(* first: a leaf search reads self.indexes, search_not reads               *)
(* self.universal_set once its operand has returned; search_and and        *)
(* search_or combine the sets their operands have returned; at the end     *)
(* query reads self.data.  Everything an evaluation computes is held in    *)
(* local variables of the calling thread.                                  *)
(***************************************************************************)
RECURSIVE post_order(_)
RECURSIVE post_order_all(_)
post_order(node) ==
    IF node.op \in {"string", "number", "list"} THEN <<node>>
    ELSE post_order_all(node.operands) \o <<node>>

post_order_all(operands) ==
    IF operands = <<>> THEN <<>>
    ELSE post_order(Head(operands)) \o post_order_all(Tail(operands))

ConcTrees ==
    {SearchString(T_t, F_flys),
     SearchNot(SearchString(T_star_er, F_nm)),
     SearchOr(<<SearchNumber(">", T_2, F_legs), SearchNot(SearchString(T_t, F_flys))>>),
     SearchAnd(<<SearchString(T_star_er, F_nm), SearchString(T_er, F_eggs)>>)}

\* the results of one thread kept where all threads keep them
frame_mut(t) == 1

\* where thread t keeps the sets its evaluate calls have returned: in
\* variables of its own
frame(t) == t

Busy(t) == threads[t].pc = "run" /\ threads[t].todo # post_order(threads[t].tree)

Others(t) == Threads \ {t}

\* thread t calls query(tree)
Start(t) ==
    /\ threads[t].pc = "idle"
    /\ \E tree \in ConcTrees :
          threads' = [threads EXCEPT ![t] =
                         [pc |-> "run", tree |-> tree, todo |-> post_order(tree),
                          stack |-> <<>>, n |-> 0, out |-> NoResult, mixed |-> FALSE]]
    /\ UNCHANGED <<data, indexes, universal_set, call, result, fs, adder>>

Failed(me, err, n) ==
    [me EXCEPT !.pc = "done", !.todo = <<>>,
               !.out = [ok |-> FALSE, ids |-> {}, err |-> err, n |-> n, ret |-> <<>>]]

\* the next evaluate call of thread t returns
Step(t) ==
    /\ threads[t].pc = "run"
    /\ threads[t].todo # <<>>
    /\ LET me == [threads[t] EXCEPT !.mixed = @ \/ \E o \in Others(t) : Busy(o)]
           node == Head(me.todo)
           leaf == node.op \in {"string", "number", "list"}
           stack == threads[frame(t)].stack
           arity == Len(node.operands)
           r == evaluate(node, me.n)
           args == SubSeq(stack, Len(stack) - arity + 1, Len(stack))
           rest == SubSeq(stack, 1, Len(stack) - arity)
           value == CASE node.op = "not" -> universal_set \ args[1]
                      [] node.op = "and" -> reduce_and(args)
                      [] node.op = "or" -> reduce_or(args)
       IN  IF leaf /\ ~r.ok
           THEN threads' = [threads EXCEPT ![t] = Failed(me, r.err, r.n)]
           ELSE IF ~leaf /\ Len(stack) < arity
           THEN threads' = [threads EXCEPT ![t] =
                               Failed(me, [msg |-> "IndexError", field |-> <<>>,
                                           term |-> <<>>], me.n)]
           ELSE threads' =
                   [threads EXCEPT
                       ![t] = [me EXCEPT !.todo = Tail(@),
                                         !.n = IF leaf THEN r.n ELSE @],
                       ![frame(t)].stack = IF leaf THEN Append(stack, r.ids)
                                           ELSE Append(rest, value)]
    /\ UNCHANGED <<data, indexes, universal_set, call, result, fs, adder>>

\* the root has returned: query looks the identifiers up in self.data
Finish(t) ==
    /\ threads[t].pc = "run"
    /\ threads[t].todo = <<>>
    /\ LET me == threads[t]
           stack == threads[frame(t)].stack
           ids == stack[Len(stack)]
       IN  IF stack = <<>>
           THEN threads' = [threads EXCEPT ![t] =
                               Failed(me, [msg |-> "IndexError", field |-> <<>>,
                                           term |-> <<>>], me.n)]
           ELSE IF ids \subseteq DOMAIN data
           THEN threads' =
                   [threads EXCEPT
                       ![t] = [me EXCEPT !.pc = "done",
                                         !.out = [ok |-> TRUE, ids |-> ids, err |-> NoErr,
                                                  n |-> me.n,
                                                  ret |-> [idx \in ids |-> data[idx]]]],
                       ![frame(t)].stack = SubSeq(stack, 1, Len(stack) - 1)]
           ELSE threads' = [threads EXCEPT ![t] =
                               Failed(me, [msg |-> "KeyError", field |-> <<>>,
                                           term |-> <<>>], me.n)]
    /\ UNCHANGED <<data, indexes, universal_set, call, result, fs, adder>>

\* query returns, or raises, to its caller: out is what the caller gets
Return(t) ==
    /\ threads[t].pc = "done"
    /\ threads' = [threads EXCEPT ![t] = Idle]
    /\ UNCHANGED <<data, indexes, universal_set, call, result, fs, adder>>

\* add_objects while no query is being evaluated
AddObjectsBetween ==
    /\ \A t \in Threads : threads[t].pc = "idle"
    /\ AddObjects

NextThreads ==
    \/ AddObjectsBetween
    \/ \E t \in Threads : Start(t)
    \/ \E t \in Threads : Step(t)
    \/ \E t \in Threads : Finish(t)
    \/ \E t \in Threads : Return(t)

SpecThreads == Init /\ [][NextThreads]_vars

(***************************************************************************)
(* add_objects a statement at a time, next to a thread that queries the    *)
(* same ObjectListQuery: nothing in the class keeps the two apart.  The    *)
(* steps of add_objects are line 64, lines 65-67 (the next object, its     *)
(* identifier, universal_set.add), line 68 (data[idx] = obj), and lines    *)
(* 69-75 once for every field.                                             *)
(***************************************************************************)
\* the object of the present turn of the loop and its identifier
adder_obj == adder.objects[adder.j + 1]

adder_idx == identifier(adder.i, adder.j, adder_obj, adder.identifier_foo)

\* line 64: add_objects is called
AddBegin ==
    /\ adder.pc = "idle"
    /\ \E objects \in Batches, identifier_foo \in IdentifierFoos :
          /\ Cardinality(universal_set) + Len(objects) <= MaxObjects
          /\ adder' = [pc |-> "for", objects |-> objects, identifier_foo |-> identifier_foo,
                       i |-> Cardinality(universal_set), j |-> 0, k |-> 0]
    /\ UNCHANGED <<data, indexes, universal_set, call, result, fs, threads>>

\* the two statements with data[idx] = obj first
add_statement_mut(pc) == IF pc = "for" THEN "data[idx] = obj" ELSE "universal_set.add(idx)"

\* the statement of lines 67 and 68 add_objects is at
add_statement(pc) == IF pc = "for" THEN "universal_set.add(idx)" ELSE "data[idx] = obj"

do_statement(statement) ==
    IF statement = "universal_set.add(idx)"
    THEN universal_set' = universal_set \cup {adder_idx} /\ UNCHANGED data
    ELSE data' = (adder_idx :> adder_obj) @@ data /\ UNCHANGED universal_set

\* lines 65-67: the next object, its identifier, self.universal_set.add(idx)
AddPublish ==
    /\ adder.pc = "for" /\ adder.j < Len(adder.objects)
    /\ do_statement(add_statement("for"))
    /\ adder' = [adder EXCEPT !.pc = "store"]
    /\ UNCHANGED <<indexes, call, result, fs, threads>>

\* line 68: self.data[idx] = obj
AddStore ==
    /\ adder.pc = "store"
    /\ do_statement(add_statement("store"))
    /\ adder' = [adder EXCEPT !.pc = "fields", !.k = 1]
    /\ UNCHANGED <<indexes, call, result, fs, threads>>

\* lines 69-75 for the k-th field; after the last field the loop over the
\* objects goes on
AddField ==
    /\ adder.pc = "fields"
    /\ LET k == fields[adder.k]
       IN  indexes' = IF ~raises(k, adder_obj) /\ isinstance(foo(k, adder_obj), k.typ)
                      THEN [indexes EXCEPT ![k] = (adder_idx :> foo(k, adder_obj)) @@ @]
                      ELSE indexes
    /\ adder' = IF adder.k < Len(fields) THEN [adder EXCEPT !.k = @ + 1]
                ELSE [adder EXCEPT !.pc = "for", !.j = @ + 1, !.k = 0]
    /\ UNCHANGED <<data, universal_set, call, result, fs, threads>>

\* the loop has ended: add_objects returns
AddEnd ==
    /\ adder.pc = "for" /\ adder.j >= Len(adder.objects)
    /\ call' = [op |-> "add_objects", objects |-> adder.objects,
                ids |-> [j \in 1..Len(adder.objects) |->
                            identifier(adder.i, j - 1, adder.objects[j], adder.identifier_foo)],
                default |-> adder.identifier_foo.is_none,
                tree |-> NoTree]
    /\ result' = NoResult
    /\ adder' = NoAdder
    /\ UNCHANGED <<data, indexes, universal_set, fs, threads>>

NextBuild ==
    \/ AddBegin
    \/ AddPublish
    \/ AddStore
    \/ AddField
    \/ AddEnd
    \/ Start(1)
    \/ Step(1)
    \/ Finish(1)
    \/ Return(1)

SpecBuild == Init /\ [][NextBuild]_vars

(***************************************************************************)
(* Properties.  call holds the last operation and its arguments, result    *)
(* what a query returned or raised.                                        *)
(***************************************************************************)
IsQuery == call.op = "query"

\* what the tree evaluates to in the present state
Outcome(tree) == [ok |-> evaluate(tree, 0).ok, ids |-> evaluate(tree, 0).ids,
                  err |-> evaluate(tree, 0).err]

ResultOutcome == [ok |-> result.ok, ids |-> result.ids, err |-> result.err]

\* C1: a query Not(A) returns the identifiers of universal_set that A does
\* not evaluate to, and raises what A raises when A raises.
C1_NotIsComplement ==
    (IsQuery /\ call.tree.op = "not") =>
        LET a == Outcome(call.tree.operands[1])
        IN  IF a.ok
            THEN result.ok /\ result.ids = universal_set \ a.ids
            ELSE ResultOutcome = a

\* a Not query has returned some, but not all, of the identifiers
C1_Witness ==
    /\ IsQuery /\ call.tree.op = "not" /\ result.ok
    /\ result.ids # {} /\ result.ids # universal_set
    /\ Outcome(call.tree.operands[1]).ids # {}

\* the operands of the and/or query, permuted by p
Permuted(operands, p) == [j \in 1..Len(operands) |-> operands[p[j]]]

\* C2: an And query returns the identifiers that every operand evaluates to,
\* an Or query those that some operand evaluates to, and the same set for
\* every order of the operands; it raises exactly when some operand raises.
C2_AndOrAreSetAlgebra ==
    (IsQuery /\ call.tree.op \in {"and", "or"}) =>
        LET os == call.tree.operands
            rs == [j \in 1..Len(os) |-> Outcome(os[j])]
            ids == UNION {rs[j].ids : j \in 1..Len(os)}
        IN  /\ Len(os) >= 2
            /\ result.ok <=> \A j \in 1..Len(os) : rs[j].ok
            /\ (result.ok /\ call.tree.op = "and") =>
                    result.ids = {idx \in ids : \A j \in 1..Len(os) : idx \in rs[j].ids}
            /\ (result.ok /\ call.tree.op = "or") =>
                    result.ids = {idx \in ids : \E j \in 1..Len(os) : idx \in rs[j].ids}
            /\ \A p \in Permutations(1..Len(os)) :
                    LET other == Outcome([call.tree EXCEPT !.operands = Permuted(os, p)])
                    IN  other.ok = result.ok /\ other.ids = result.ids

\* an And of three operands has returned fewer identifiers than its first
\* operand evaluates to, and an Or more
C2_Witness ==
    /\ IsQuery /\ result.ok /\ result.ids # {}
    /\ Len(call.tree.operands) = 3
    /\ \/ call.tree.op = "and" /\ result.ids # Outcome(call.tree.operands[1]).ids
       \/ call.tree.op = "or" /\ result.ids # Outcome(call.tree.operands[1]).ids

\* the field key a name resolves to: the keys whose full or abbreviated
\* name is the name in lower case
KeysNamed(field) == {k \in FieldKeys : lower(field) \in {k.full, k.abbr}}

KeyNamed(field) == CHOOSE k \in KeysNamed(field) : TRUE

\* the term of a number search converted for a field of type typ
Converted(term, typ) == IF typ = "datetime" THEN strptime(term) ELSE float(term)

Less(a, b) == a.n * b.d < b.n * a.d

IsNumberQuery ==
    /\ IsQuery /\ call.tree.op = "number" /\ result.ok
    /\ KeysNamed(call.tree.field) # {}

\* C3 as stated: '>' returns the identifiers whose indexed value is at least
\* the term, '<' those whose value is at most the term.
C3_InclusiveBounds ==
    IsNumberQuery =>
        LET k == KeyNamed(call.tree.field)
            t == Converted(call.tree.term, k.typ)
            v(idx) == indexes[k][idx]
        IN  /\ call.tree.comp = ">" =>
                result.ids = {idx \in DOMAIN indexes[k] : ~Less(v(idx), t)}
            /\ call.tree.comp = "<" =>
                result.ids = {idx \in DOMAIN indexes[k] : ~Less(t, v(idx))}
            /\ call.tree.comp = "=" =>
                result.ids = {idx \in DOMAIN indexes[k] : ~Less(v(idx), t) /\ ~Less(t, v(idx))}

\* C3 amended: '>' returns exactly the identifiers whose indexed value is
\* greater than the term, '<' those whose value is less, '=' those whose
\* value equals it: a value equal to the term is returned by '=' only.
C3_StrictBounds ==
    IsNumberQuery =>
        LET k == KeyNamed(call.tree.field)
            t == Converted(call.tree.term, k.typ)
            v(idx) == indexes[k][idx]
        IN  /\ call.tree.comp = ">" =>
                result.ids = {idx \in DOMAIN indexes[k] : Less(t, v(idx))}
            /\ call.tree.comp = "<" =>
                result.ids = {idx \in DOMAIN indexes[k] : Less(v(idx), t)}
            /\ call.tree.comp = "=" =>
                result.ids = {idx \in DOMAIN indexes[k] : ~Less(v(idx), t) /\ ~Less(t, v(idx))}

\* a '>' or '<' query has left out an identifier whose indexed value equals
\* the term while returning another
C3_Witness ==
    /\ IsNumberQuery /\ call.tree.comp \in {">", "<"}
    /\ result.ids # {}
    /\ LET k == KeyNamed(call.tree.field)
           t == Converted(call.tree.term, k.typ)
       IN  \E idx \in DOMAIN indexes[k] :
              /\ ~Less(indexes[k][idx], t) /\ ~Less(t, indexes[k][idx])
              /\ idx \notin result.ids

HasWildcard(term) == \E i \in 1..Len(term) : term[i] \in {"*", "?"}

IsStringQuery ==
    /\ IsQuery /\ call.tree.op = "string" /\ result.ok
    /\ KeysNamed(call.tree.field) # {}
    /\ KeyNamed(call.tree.field).typ = "str"

\* C4: a string search on a String field returns exactly the identifiers
\* whose whole indexed value matches the term as a glob; a term without
\* wildcards returns only identifiers whose value equals the term.
C4_FullValueMatch ==
    IsStringQuery =>
        LET k == KeyNamed(call.tree.field)
        IN  /\ result.ids =
                {idx \in DOMAIN indexes[k] : translate_match(call.tree.term, indexes[k][idx].s)}
            /\ ~HasWildcard(call.tree.term) =>
                \A idx \in result.ids : indexes[k][idx].s = call.tree.term

\* C5: Not(And(A, B)) evaluates to what Or(Not(A), Not(B)) evaluates to.
C5_DeMorgan ==
    (/\ IsQuery /\ call.tree.op = "not"
     /\ call.tree.operands[1].op = "and"
     /\ Len(call.tree.operands[1].operands) = 2) =>
        LET A == call.tree.operands[1].operands[1]
            B == call.tree.operands[1].operands[2]
        IN  ResultOutcome = Outcome(SearchOr(<<SearchNot(A), SearchNot(B)>>))

\* Not(And(A, B)) has returned some but not all identifiers, where A and B
\* evaluate to different sets
C5_Witness ==
    /\ IsQuery /\ call.tree.op = "not" /\ call.tree.operands[1].op = "and"
    /\ result.ok /\ result.ids # {} /\ result.ids # universal_set
    /\ Outcome(call.tree.operands[1].operands[1]).ids
         # Outcome(call.tree.operands[1].operands[2]).ids

IsLeaf(node) == node.op \in {"string", "number", "list"}

RECURSIVE LeavesOf(_)
RECURSIVE LeavesOfAll(_)
\* the leaves of a tree in the order they are written
LeavesOf(node) == IF IsLeaf(node) THEN <<node>> ELSE LeavesOfAll(node.operands)

LeavesOfAll(operands) ==
    IF operands = <<>> THEN <<>>
    ELSE LeavesOf(Head(operands)) \o LeavesOfAll(Tail(operands))

UnknownField(leaf) == KeysNamed(leaf.field) = {}

\* the leaf names a field whose type its kind of search does not take
TypeMismatch(leaf) ==
    /\ ~UnknownField(leaf)
    /\ \/ leaf.op = "string" /\ KeyNamed(leaf.field).typ \notin {"str", "bool"}
       \/ leaf.op = "number" /\ KeyNamed(leaf.field).typ \notin {"int", "float", "datetime"}

MismatchMessage(leaf) ==
    IF leaf.op = "string" THEN "is not a string or bool."
    ELSE "is not a float or integer or datetime."

\* the leaf raises when it is evaluated on its own
FailsAlone(leaf) == ~Outcome(leaf).ok

\* no leaf written before the i-th raises on its own
FirstToFail(ls, i) == FailsAlone(ls[i]) /\ \A j \in 1..(i - 1) : ~FailsAlone(ls[j])

Raised == ~result.ok /\ result.ids = {} /\ result.ret = <<>>

\* C6: a query with a string search on a field that is neither str nor bool,
\* or a number search on a field that is neither int, float nor datetime,
\* raises and returns nothing; when no leaf before it raises, the error is
\* "Field <f> is not a ..." for that field, also when the term of the leaf
\* cannot be converted.
C6_TypeMismatchRaises ==
    IsQuery =>
        LET ls == LeavesOf(call.tree)
        IN  \A i \in 1..Len(ls) :
                TypeMismatch(ls[i]) =>
                    /\ Raised
                    /\ FirstToFail(ls, i) =>
                        result.err = [msg |-> MismatchMessage(ls[i]), field |-> ls[i].field,
                                      term |-> <<>>]

\* a number search on a bool field with a term that is no number, written
\* after a leaf that evaluates to identifiers, has raised the type error
C6_Witness ==
    /\ IsQuery /\ Len(LeavesOf(call.tree)) = 2
    /\ LET ls == LeavesOf(call.tree)
       IN  /\ Outcome(ls[1]).ok /\ Outcome(ls[1]).ids # {}
           /\ ls[2].op = "number" /\ TypeMismatch(ls[2])
           /\ ~float(ls[2].term).ok /\ ~strptime(ls[2].term).ok
           /\ result.err.msg = "is not a float or integer or datetime."
           /\ result.err.field = ls[2].field

\* a number as the grammar can write it: an optional '-', then digits with
\* at most one '.' among them and at least one digit
IsNumeral(term) ==
    LET body == IF term # <<>> /\ term[1] = "-" THEN Tail(term) ELSE term
    IN  \E p \in 0..Len(body) :
            /\ \A i \in 1..p : body[i] \in Digits
            /\ \/ p = Len(body) /\ p >= 1
               \/ /\ p < Len(body) /\ body[p + 1] = "."
                  /\ \A i \in (p + 2)..Len(body) : body[i] \in Digits
                  /\ Len(body) >= 2

\* a date of the calendar written year-month-day: a year of four digits,
\* a month and a day of one or two digits
IsCalendarDate(term) ==
    \E lm \in {1, 2}, ld \in {1, 2} :
        /\ Len(term) = 4 + 1 + lm + 1 + ld
        /\ term[5] = "-" /\ term[6 + lm] = "-"
        /\ \A i \in (1..Len(term)) \ {5, 6 + lm} : term[i] \in Digits
        /\ LET y == int_of(SubSeq(term, 1, 4))
               m == int_of(SubSeq(term, 6, 5 + lm))
               dd == int_of(SubSeq(term, 7 + lm, Len(term)))
           IN  /\ y >= 1 /\ m >= 1 /\ m <= 12 /\ dd >= 1
               /\ dd <= (CASE m \in {1, 3, 5, 7, 8, 10, 12} -> 31
                           [] m \in {4, 6, 9, 11} -> 30
                           [] OTHER -> IF y % 4 = 0 /\ (y % 100 # 0 \/ y % 400 = 0)
                                       THEN 29 ELSE 28)

\* C7: a number search on an int or float field whose term is not a number,
\* or on a datetime field whose term is not a date of the calendar, raises
\* "Field <f>: <term> cannot be converted into a number" (or "a date") and
\* returns nothing.
C7_UnconvertibleTermRaises ==
    (IsQuery /\ call.tree.op = "number" /\ ~UnknownField(call.tree)) =>
        LET k == KeyNamed(call.tree.field)
        IN  /\ (k.typ \in {"int", "float"} /\ ~IsNumeral(call.tree.term)) =>
                /\ Raised
                /\ result.err = [msg |-> "cannot be converted into a number.",
                                 field |-> call.tree.field, term |-> call.tree.term]
            /\ (k.typ = "datetime" /\ ~IsCalendarDate(call.tree.term)) =>
                /\ Raised
                /\ result.err = [msg |-> "cannot be converted into a date.",
                                 field |-> call.tree.field, term |-> call.tree.term]

\* a search on the datetime field with a day the month does not have has
\* raised, with values in the index of the field
C7_Witness ==
    /\ IsQuery /\ call.tree.op = "number" /\ ~UnknownField(call.tree)
    /\ KeyNamed(call.tree.field).typ = "datetime"
    /\ call.tree.term = T_2020_02_30
    /\ DOMAIN indexes[KeyNamed(call.tree.field)] # {}
    /\ result.err.msg = "cannot be converted into a date."

\* C8 as stated: a query with a leaf of any kind on an unknown field raises
\* and returns nothing, and a query that is such a leaf names the field.
C8_UnknownFieldRaises ==
    IsQuery =>
        LET ls == LeavesOf(call.tree)
        IN  \A i \in 1..Len(ls) :
                UnknownField(ls[i]) =>
                    /\ Raised
                    /\ Len(ls) = 1 => result.err.field = ls[i].field

\* the unknown fields a tree names
UnknownFields(tree) ==
    {LeavesOf(tree)[i].field : i \in {j \in 1..Len(LeavesOf(tree)) : UnknownField(LeavesOf(tree)[j])}}

\* the fields the error message names
NamedIn(err) == IF err.msg = "" THEN {} ELSE {err.field}

\* C9 as stated: a query naming two or more unknown fields raises one error
\* that names them all, before any leaf is evaluated.
C9_AllUnknownFieldsNamed ==
    (IsQuery /\ Cardinality(UnknownFields(call.tree)) >= 2) =>
        /\ Raised
        /\ UnknownFields(call.tree) \subseteq NamedIn(result.err)
        /\ result.n = 0

\* C9 amended: a query naming two or more unknown fields in string or number
\* leaves raises the error of the first leaf, in the order written, that
\* raises on its own; the error names the field of that leaf only and is
\* raised when the evaluation reaches that leaf, after the leaves before it.
C9_FirstFailingLeafNamed ==
    (/\ IsQuery /\ Cardinality(UnknownFields(call.tree)) >= 2
     /\ \E i \in 1..Len(LeavesOf(call.tree)) :
            UnknownField(LeavesOf(call.tree)[i]) /\ LeavesOf(call.tree)[i].op # "list") =>
        LET ls == LeavesOf(call.tree)
        IN  /\ Raised
            /\ \E i \in 1..Len(ls) :
                    /\ FirstToFail(ls, i)
                    /\ result.err = Outcome(ls[i]).err
                    /\ NamedIn(result.err) = {ls[i].field}
                    /\ result.n = i

\* a query naming two unknown fields has raised at its first leaf, naming
\* one of them
C9_Witness ==
    /\ IsQuery /\ Cardinality(UnknownFields(call.tree)) >= 2
    /\ ~result.ok /\ result.err.msg = "not recognised."
    /\ result.n = 1
    /\ UnknownFields(call.tree) \ NamedIn(result.err) # {}
    /\ universal_set # {}

\* the accessor of field k gives a value of the type of k for the object
Extractable(k, obj) == ~raises(k, obj) /\ isinstance(foo(k, obj), k.typ)

\* C10 as stated: after add_objects every object of the call has its
\* identifier in universal_set and data, and the identifier is in the index
\* of a field exactly when the accessor of the field gives a value of the
\* type of the field for the object.
C10_FailuresLeftOutOfIndex ==
    (call.op = "add_objects") =>
        \A j \in 1..Len(call.objects) :
            /\ call.ids[j] \in universal_set
            /\ call.ids[j] \in DOMAIN data
            /\ \A k \in FieldKeys :
                    call.ids[j] \in DOMAIN indexes[k] <=> Extractable(k, call.objects[j])

\* C11: a list search raises unless its field is a registered field of type
\* list; on such a field '!' returns exactly the identifiers whose indexed
\* list holds the same elements as the term, and '?' exactly those whose
\* indexed list holds every element of the term.
C11_ListMembership ==
    (IsQuery /\ call.tree.op = "list") =>
        LET tree == call.tree
            elems == {split(tree.term)[j] : j \in 1..Len(split(tree.term))}
            held(k, idx) == {indexes[k][idx].l[j] : j \in 1..Len(indexes[k][idx].l)}
        IN  IF KeysNamed(tree.field) = {} \/ KeyNamed(tree.field).typ # "list"
            THEN Raised
            ELSE LET k == KeyNamed(tree.field)
                 IN  /\ result.ok
                     /\ tree.comp = "!" =>
                            result.ids = {idx \in DOMAIN indexes[k] : held(k, idx) = elems}
                     /\ tree.comp = "?" =>
                            result.ids = {idx \in DOMAIN indexes[k] : elems \subseteq held(k, idx)}

\* a string search, given to the three backends, on a field of type bool
\* with a term the conversion of booleans is stated for: 't' or 'T', or a
\* term that does not start with either
IsBoolSearch ==
    /\ call.op = "search_string"
    /\ KeysNamed(call.tree.field) # {}
    /\ KeyNamed(call.tree.field).typ = "bool"
    /\ \/ lower(call.tree.term) = <<"t">>
       \/ call.tree.term[1] \notin {"t", "T"}

\* C12: on a field of type bool the term 't' (in either case) is converted
\* to true and a term that does not start with 't' or 'T' to false, by
\* ObjectListQuery.search_string, by FieldSpecification.convert_string and
\* by convert_term_to_type (MongoQuery) alike.
C12_BoolTermConversion ==
    IsBoolSearch =>
        LET k == KeyNamed(call.tree.field)
            expected == lower(call.tree.term) = <<"t">>
        IN  /\ result.object_list.ok
            /\ result.object_list.ids =
                  {idx \in DOMAIN indexes[k] : (indexes[k][idx].n = 1) = expected}
            /\ result.sqlite.ok
            /\ result.sqlite.qterm = BoolVal(expected)
            /\ result.mongo.ok
            /\ result.mongo.doc.qterm = BoolVal(expected)

\* C13: a query, whether it returns or raises, leaves data, indexes and
\* universal_set as they were, and the same query evaluated again in the
\* state it leaves gives the result it gave.
C13_QueryIsPure ==
    /\ [][(call'.op = "query") =>
              /\ data' = data
              /\ indexes' = indexes
              /\ universal_set' = universal_set]_vars
    /\ [](IsQuery => result = query(call.tree))

\* a query has raised on a querier that holds objects
C13_Witness ==
    /\ IsQuery /\ ~result.ok
    /\ universal_set # {} /\ data # <<>>
    /\ result = query(call.tree)

(***************************************************************************)
(* The strings the grammar derives: an expression is and-expressions        *)
(* joined by or, an and-expression is not-expressions joined by and, a     *)
(* not-expression is not's before a leaf or a parenthesised expression.    *)
(***************************************************************************)
RECURSIVE IsExpression(_)
RECURSIVE IsLevel(_, _)
IsLevel(lvl, ts) ==
    IF lvl = 0
    THEN \/ Len(ts) = 1 /\ ts[1].kind = "leaf"
         \/ /\ Len(ts) >= 3 /\ ts[1].kind = "(" /\ ts[Len(ts)].kind = ")"
            /\ IsExpression(SubSeq(ts, 2, Len(ts) - 1))
    ELSE IF lvl = 1
    THEN \/ IsLevel(0, ts)
         \/ Len(ts) >= 2 /\ ts[1].kind = "not" /\ IsLevel(1, Tail(ts))
    ELSE \/ IsLevel(lvl - 1, ts)
         \/ \E i \in 2..(Len(ts) - 1) :
                /\ ts[i].kind = (IF lvl = 2 THEN "and" ELSE "or")
                /\ IsLevel(lvl, SubSeq(ts, 1, i - 1))
                /\ IsLevel(lvl - 1, SubSeq(ts, i + 1, Len(ts)))

IsExpression(ts) == IsLevel(3, ts)

IsQueryString == call.op = "query" /\ "text" \in DOMAIN call

\* C14: a query string that is not, as a whole, an expression of the
\* grammar is refused with the error "The query cannot be parsed.": also
\* an expression followed by something else, or by a closing parenthesis
\* that closes nothing; no part of it is evaluated.
C14_ParseFailuresRaise ==
    (IsQueryString /\ ~IsExpression(call.text)) =>
        /\ ~result.ok
        /\ result.err.msg = "The query cannot be parsed."
        /\ result.n = 0

\* a query string leaf-operator-leaf-operator-leaf, the operators and / or
IsThreeLeafString ==
    /\ IsQueryString
    /\ Len(call.text) = 5
    /\ \A j \in {1, 3, 5} : call.text[j].kind = "leaf"
    /\ \A j \in {2, 4} : call.text[j].kind \in {"and", "or"}

NodeOf(kind, operands) == IF kind = "and" THEN SearchAnd(operands) ELSE SearchOr(operands)

\* the string grouped from the left, whatever its operators
GroupedLeft(ts) ==
    NodeOf(ts[4].kind, <<NodeOf(ts[2].kind, <<ts[1].leaf, ts[3].leaf>>), ts[5].leaf>>)

\* the string grouped with 'and' before 'or'
GroupedAndFirst(ts) ==
    IF ts[2].kind = ts[4].kind
    THEN NodeOf(ts[2].kind, <<ts[1].leaf, ts[3].leaf, ts[5].leaf>>)
    ELSE IF ts[2].kind = "or"
    THEN SearchOr(<<ts[1].leaf, SearchAnd(<<ts[3].leaf, ts[5].leaf>>)>>)
    ELSE SearchOr(<<SearchAnd(<<ts[1].leaf, ts[3].leaf>>), ts[5].leaf>>)

\* C15 as stated: 'and' and 'or' have the same precedence and group from
\* the left: 'A or B and C' evaluates as (A or B) and C, 'A and B or C' as
\* (A and B) or C.
C15_SamePrecedence ==
    (IsThreeLeafString /\ call.text[2].kind # call.text[4].kind) =>
        result = query(GroupedLeft(call.text))

\* C15: 'and' binds tighter than 'or': 'A or B and C' evaluates as
\* A or (B and C), 'A and B or C' as (A and B) or C; a run of one operator
\* is one node with its operands in the order written.
C15_AndBindsTighter ==
    IsThreeLeafString =>
        /\ call.tree = GroupedAndFirst(call.text)
        /\ result = query(GroupedAndFirst(call.text))

\* 'A or B and C' has returned another set than (A or B) and C evaluates to
C15_Witness ==
    /\ IsThreeLeafString
    /\ call.text[2].kind = "or" /\ call.text[4].kind = "and"
    /\ result.ok /\ result.ids # {}
    /\ result.ids # query(GroupedLeft(call.text)).ids

\* the names of the i-th field of a FieldSpecification
NamesOf(spec, i) == {spec[i].full, spec[i].abbr}

\* C16: for every registered field, a field name that is its full or its
\* abbreviated name in any mix of upper and lower case resolves to that
\* field, by FieldSpecification.match and by ObjectListQuery._match_field.
C16_CaseInsensitiveResolution ==
    (call.op = "match") =>
        /\ \A i \in 1..Len(fs) :
              lower(call.field) \in NamesOf(fs, i) => result.i = i
        /\ \A i \in 1..Len(fields) :
              lower(call.field) \in NamesOf(fields, i) => result.object_list = i

\* C17: in a constructed FieldSpecification no two fields share a full or
\* abbreviated name, nor is the abbreviated name of one the full name of
\* another, so that a name resolves to one field at most.
C17_NamesUnique ==
    \A i, j \in 1..Len(fs) : i # j => NamesOf(fs, i) \cap NamesOf(fs, j) = {}

\* the identifiers given to the objects of the last add_objects
IdsOf(c) == {c.ids[j] : j \in 1..Len(c.ids)}

\* C18 as stated: after add_objects(objs) the querier holds the objects of
\* that call and nothing of an earlier call.
C18_FullRebuild ==
    (call.op = "add_objects") =>
        /\ universal_set = IdsOf(call)
        /\ DOMAIN data = IdsOf(call)
        /\ \A k \in FieldKeys : DOMAIN indexes[k] \subseteq IdsOf(call)

\* C18: add_objects adds to what the querier holds: universal_set and data
\* gain the identifiers of the call, an identifier given more than once
\* holds the last object given it, and every identifier, every object of
\* another identifier and every index entry of another identifier stays.
C18_AddIsIncremental ==
    [][(call'.op = "add_objects") =>
            LET new == IdsOf(call')
            IN  /\ universal_set' = universal_set \cup new
                /\ DOMAIN data' = DOMAIN data \cup new
                /\ \A idx \in DOMAIN data \ new : data'[idx] = data[idx]
                /\ \A j \in 1..Len(call'.ids) :
                      (\A j2 \in (j + 1)..Len(call'.ids) : call'.ids[j2] # call'.ids[j])
                          => data'[call'.ids[j]] = call'.objects[j]
                /\ \A k \in FieldKeys : \A idx \in DOMAIN indexes[k] :
                      /\ idx \in DOMAIN indexes'[k]
                      /\ idx \notin new => indexes'[k][idx] = indexes[k][idx]]_vars

\* add_objects has added one object to a querier that held another
C18_Witness ==
    /\ call.op = "add_objects" /\ Len(call.objects) = 1
    /\ Cardinality(universal_set) = 2
    /\ \E idx \in DOMAIN data : idx \notin IdsOf(call) /\ data[idx] # call.objects[1]

\* C19: with no add_objects in progress, a query evaluated by one thread
\* while another thread evaluates a query on the same querier returns (or
\* raises) what it does evaluated alone.
C19_ConcurrentQueriesAgree ==
    \A t \in Threads :
        threads[t].pc = "done" => threads[t].out = query(threads[t].tree)

\* a thread has returned a set from an evaluation whose steps were mixed
\* with those of the other thread, which is still in the middle of its own
C19_Witness ==
    \E t \in Threads : \E o \in Others(t) :
        /\ threads[t].pc = "done" /\ threads[t].mixed
        /\ threads[t].out.ok /\ threads[t].out.ids # {}
        /\ Busy(o) /\ threads[o].mixed
        /\ threads[o].tree # threads[t].tree

\* the parentheses open after the first i characters of a text
Depth(text, i) ==
    Cardinality({j \in 1..i : text[j] = "("}) - Cardinality({j \in 1..i : text[j] = ")"})

\* no parenthesis closes one that is not open, and none stays open
Balanced(text) ==
    /\ \A i \in 1..Len(text) : Depth(text, i) >= 0
    /\ Depth(text, Len(text)) = 0

\* the clauses the operands of a node render to, in the order written
Rendered(operands) == [j \in 1..Len(operands) |-> sqlite_evaluate(operands[j]).sql]

\* C20: SQLiteQuery renders Not(X) as 'NOT (' r(X) ')', And(X1..Xn) as
\* '(' r(X1) ' AND ' ... ' AND ' r(Xn) ')' and Or likewise with ' OR ',
\* the operands in the order written; the clause has balanced parentheses
\* and rendering the tree again gives the same text.
C20_SqliteInteriorNodes ==
    (call.op = "sqlite_query" /\ result.ok) =>
        LET tree == call.tree
        IN  /\ tree.op = "not" =>
                  result.where = SqlText.not \o Rendered(tree.operands)[1] \o SqlText.close
            /\ tree.op = "and" =>
                  result.where = SqlText.open \o join(SqlText.and, Rendered(tree.operands)) \o SqlText.close
            /\ tree.op = "or" =>
                  result.where = SqlText.open \o join(SqlText.or, Rendered(tree.operands)) \o SqlText.close
            /\ Balanced(result.where)
            /\ result = sqlite_query(tree)
            /\ result.sql = SqlText.select \o SqlText.table \o SqlText.where \o result.where

\* the clause of a Not over an And that holds an Or has been rendered
C20_Witness ==
    /\ call.op = "sqlite_query" /\ result.ok
    /\ call.tree.op = "not"
    /\ call.tree.operands[1].op = "and"
    /\ call.tree.operands[1].operands[2].op = "or"
    /\ call.tree.operands[1].operands[1].op = "string"
    /\ call.tree.operands[1].operands[2].operands[2].op = "number"
    /\ Balanced(result.where)

\* the documents the operands of a node render to, in the order written
RenderedDocs(operands) == [j \in 1..Len(operands) |-> mongo_evaluate(operands[j]).doc]

\* C21: MongoQuery renders Not(X) as {$nor: [r(X)]}, And(X1..Xn) as
\* {$and: [r(X1), ..., r(Xn)]} and Or likewise with $or, the operands in
\* the order written; a number leaf with '>', '<', '=' as
\* {path: {$gt|$lt|$eq: the term converted to the type of the field}} and
\* a list leaf as {path: {$in: the elements of the term}}.
C21_DocumentRendering ==
    (call.op = "mongo_query" /\ result.ok) =>
        LET tree == call.tree
            doc == result.doc
            i == match(tree.field)
        IN  /\ tree.op = "not" =>
                  doc = [path |-> "", op |-> "$nor", qterm |-> Absent,
                         docs |-> <<RenderedDocs(tree.operands)[1]>>]
            /\ tree.op = "and" =>
                  doc = [path |-> "", op |-> "$and", qterm |-> Absent,
                         docs |-> RenderedDocs(tree.operands)]
            /\ tree.op = "or" =>
                  doc = [path |-> "", op |-> "$or", qterm |-> Absent,
                         docs |-> RenderedDocs(tree.operands)]
            /\ tree.op = "number" =>
                  /\ i # 0 /\ doc.path = fs[i].key /\ doc.docs = <<>>
                  /\ tree.comp = ">" => doc.op = "$gt"
                  /\ tree.comp = "<" => doc.op = "$lt"
                  /\ tree.comp = "=" => doc.op = "$eq"
                  /\ doc.qterm = IF fs[i].typ = "datetime"
                                 THEN date_of(strptime(tree.term))
                                 ELSE FloatVal(float(tree.term).n, float(tree.term).d)
            /\ tree.op = "list" =>
                  /\ i # 0 /\ doc.path = fs[i].key /\ doc.docs = <<>>
                  /\ doc.op = "$in"
                  /\ doc.qterm = ListVal(split(tree.term))

\* an And of three operands has been rendered, the third a Not over a list
\* leaf and the second a number leaf
C21_Witness ==
    /\ call.op = "mongo_query" /\ result.ok
    /\ call.tree.op = "and" /\ Len(call.tree.operands) = 3
    /\ result.doc.op = "$and" /\ Len(result.doc.docs) = 3
    /\ result.doc.docs[2].op = "$gt"
    /\ result.doc.docs[3].op = "$nor"
    /\ result.doc.docs[3].docs[1].op = "$in"
    /\ Len(result.doc.docs[3].docs[1].qterm.l) = 2

\* C22: for a string search on a field of type str, the filter MongoQuery
\* renders selects a stored value if and only if
\* ObjectListQuery.search_string selects it for the same term.
C22_BackendsAgreeOnStrings ==
    (/\ call.op = "search_string"
     /\ KeysNamed(call.tree.field) # {}
     /\ KeyNamed(call.tree.field).typ = "str") =>
        LET k == KeyNamed(call.tree.field)
        IN  /\ result.object_list.ok
            /\ result.mongo.ok
            /\ \A idx \in DOMAIN indexes[k] :
                  (idx \in result.object_list.ids)
                      <=> mongo_selects(result.mongo.doc, indexes[k][idx])

CallsBy(names) == SelectSeq(result.calls, LAMBDA c : c.by \in names)

CallsTo(names) == SelectSeq(result.calls, LAMBDA c : c.calls \in names)

Interior == {"search_not", "search_and", "search_or"}

RECURSIVE NodeCount(_)
\* the nodes of a tree
NodeCount(node) ==
    IF node.operands = <<>> THEN 1
    ELSE 1 + NodeCount(node.operands[1])
           + (IF Len(node.operands) > 1 THEN NodeCount(node.operands[2]) ELSE 0)
           + (IF Len(node.operands) > 2 THEN NodeCount(node.operands[3]) ELSE 0)

\* C24 as stated: search_not, search_and and search_or are handed the
\* results of the operands, never the operand nodes, and no method of the
\* backend calls evaluate on a node.
C24_ResultsHandedOver ==
    (call.op = "dispatch") =>
        /\ \A i \in 1..Len(result.calls) :
              result.calls[i].calls \in Interior => result.calls[i].passing = "results"
        /\ CallsBy(Interior) = <<>>

\* C24 amended: the evaluate of a Not/And/Or node hands search_not /
\* search_and / search_or its operand nodes, and the method of the backend
\* calls evaluate on them: in an evaluation that returns, on every node but
\* the root exactly once, the leaves being searched in the order written,
\* and every node calling exactly one search method.
C24_NodesHandedOver ==
    (call.op = "dispatch") =>
        /\ \A i \in 1..Len(result.calls) :
              /\ result.calls[i].calls \in Interior => result.calls[i].passing = "nodes"
              /\ result.calls[i].calls = "evaluate" => result.calls[i].by \in Interior
              /\ result.calls[i].by = "evaluate" =>
                    result.calls[i].calls = search_method(result.calls[i].node)
              /\ result.calls[i].calls = "evaluate" =>
                    /\ i < Len(result.calls)
                    /\ result.calls[i + 1].by = "evaluate"
                    /\ result.calls[i + 1].node = result.calls[i].node
        /\ result.calls[1] = Called("evaluate", search_method(call.tree),
                                    IF IsLeaf(call.tree) THEN "term" ELSE "nodes", call.tree)
        /\ result.out.ok =>
              /\ Len(CallsTo({"evaluate"})) = NodeCount(call.tree) - 1
              /\ Len(CallsBy({"evaluate"})) = NodeCount(call.tree)
              /\ [i \in 1..Len(LeavesOf(call.tree)) |->
                      CallsTo({"search_string", "search_number", "search_list"})[i].node]
                  = LeavesOf(call.tree)
        /\ ~result.out.ok =>
              Len(CallsTo({"search_string", "search_number", "search_list"}))
                  <= Len(LeavesOf(call.tree))

\* a Not over an And of two leaves has been evaluated on a querier that
\* holds objects, and has returned
C24_Witness ==
    /\ call.op = "dispatch" /\ result.out.ok /\ universal_set # {}
    /\ call.tree.op = "not" /\ call.tree.operands[1].op = "and"
    /\ Len(result.calls) = 7
    /\ result.calls[1].calls = "search_not" /\ result.calls[1].passing = "nodes"
    /\ result.calls[2].by = "search_not" /\ result.calls[2].calls = "evaluate"
    /\ result.calls[3].calls = "search_and"
    /\ result.calls[4].by = "search_and" /\ result.calls[4].calls = "evaluate"

\* C25: add_objects puts an identifier in universal_set before it stores
\* the object: between the two statements the identifier is in
\* universal_set and, unless it was stored before, has no entry in data
\* (at every other point universal_set is the key set of data); a query
\* evaluated meanwhile that has failed at the look-up in data has a Not in
\* it, as the witness shows one can.
C25_PublishedBeforeStored ==
    /\ DOMAIN data \subseteq universal_set
    /\ adder.pc = "store" =>
          /\ adder_idx \in universal_set
          /\ universal_set \ DOMAIN data \subseteq {adder_idx}
    /\ adder.pc # "store" => universal_set = DOMAIN data
    /\ (threads[1].pc = "done" /\ threads[1].out.err.msg = "KeyError") =>
          \E i \in 1..Len(post_order(threads[1].tree)) :
              post_order(threads[1].tree)[i].op = "not"

\* a query Not(...) evaluated while add_objects is between the two
\* statements has failed: the identifier it has from universal_set has no
\* entry in data
C25_Witness ==
    /\ threads[1].pc = "done" /\ ~threads[1].out.ok
    /\ threads[1].out.err.msg = "KeyError"
    /\ threads[1].tree.op = "not"
    /\ adder.pc = "store"
    /\ adder_idx \in universal_set /\ adder_idx \notin DOMAIN data

\* C26: after any calls of add_objects universal_set is the key set of
\* data, and the keys of the index of every field are in universal_set.
C26_UniversalSetIsKeySet ==
    /\ universal_set = DOMAIN data
    /\ \A k \in FieldKeys : DOMAIN indexes[k] \subseteq universal_set

\* two objects have been added under identifiers of their own, and the
\* index of some field holds one of them only
C26_Witness ==
    /\ call.op = "add_objects" /\ ~call.default
    /\ Cardinality(universal_set) = 2
    /\ \E k \in FieldKeys : Cardinality(DOMAIN indexes[k]) = 1

\* C27: an identifier is a key of the index of field k exactly when the
\* accessor of k gives a value of the type of k for the object data holds
\* under the identifier, and the index holds that value.
C27_IndexesReflectData ==
    \A k \in FieldKeys : \A idx \in DOMAIN data :
        /\ idx \in DOMAIN indexes[k] <=> Extractable(k, data[idx])
        /\ idx \in DOMAIN indexes[k] => indexes[k][idx] = foo(k, data[idx])

\* C28: with identifier_foo None in every call, the identifiers of a call
\* are distinct and none is held already, so that data grows by the number
\* of objects of the call and keeps every object it held; the identifiers
\* held are 0, 1, ... without a gap.
C28_DefaultIdentifiersDistinct ==
    /\ [][(call'.op = "add_objects") =>
              /\ \A j \in 1..Len(call'.ids) :
                    /\ call'.ids[j] \notin DOMAIN data
                    /\ \A j2 \in 1..Len(call'.ids) : j2 # j => call'.ids[j2] # call'.ids[j]
              /\ Cardinality(DOMAIN data') = Cardinality(DOMAIN data) + Len(call'.objects)
              /\ \A idx \in DOMAIN data : data'[idx] = data[idx]]_vars
    /\ [](DOMAIN data = 0..(Cardinality(DOMAIN data) - 1))

\* the object added by an earlier call has been added again by a call of
\* its own, and data holds it twice
C28_Witness ==
    /\ call.op = "add_objects" /\ call.default /\ Len(call.objects) = 1
    /\ DOMAIN data = {0, 1}
    /\ call.ids = <<1>>
    /\ data[0] = call.objects[1] /\ data[1] = call.objects[1]

\* C29: the set every node of a query evaluates to is within
\* universal_set, so that taking it out of universal_set twice gives it
\* back and Not(Not(A)) evaluates to what A evaluates to; and query finds
\* an object in data for every identifier of the result.
C29_ResultsWithinUniversalSet ==
    IsQuery =>
        LET nodes == post_order(call.tree)
        IN  /\ \A i \in 1..Len(nodes) :
                  Outcome(nodes[i]).ok =>
                      /\ Outcome(nodes[i]).ids \subseteq universal_set
                      /\ universal_set \ (universal_set \ Outcome(nodes[i]).ids)
                            = Outcome(nodes[i]).ids
                      /\ (nodes[i].op = "not" /\ nodes[i].operands[1].op = "not") =>
                            Outcome(nodes[i]).ids
                                = Outcome(nodes[i].operands[1].operands[1]).ids
            /\ Outcome(call.tree).ok =>
                  /\ result.ok
                  /\ result.ids = Outcome(call.tree).ids
                  /\ DOMAIN result.ret = result.ids
                  /\ \A idx \in result.ids : result.ret[idx] = data[idx]

\* a Not of a Not has returned some of the objects held and not all
C29_Witness ==
    /\ IsQuery /\ result.ok
    /\ call.tree.op = "not" /\ call.tree.operands[1].op = "not"
    /\ result.ids # {} /\ result.ids # universal_set
    /\ result.ids = Outcome(call.tree.operands[1].operands[1]).ids

\* C30: a query raises whenever a string or number leaf of it raises on its
\* own, whatever the operands before the leaf evaluate to, having searched
\* the leaves before the first such leaf; and a query that returns has
\* searched every leaf once.
C30_NoShortCircuit ==
    IsQuery =>
        LET ls == LeavesOf(call.tree)
            failing == {i \in 1..Len(ls) : FailsAlone(ls[i])}
        IN  /\ \A i \in failing : ls[i].op \in {"string", "number"}
            /\ failing # {} =>
                  /\ Raised
                  /\ \A i \in failing : FirstToFail(ls, i) => result.n = i
            /\ failing = {} => result.ok /\ result.n = Len(ls)

\* an And whose first operand evaluates to no identifier, on a querier that
\* holds objects, has raised the error of its second operand
C30_Witness ==
    /\ IsQuery /\ call.tree.op = "and" /\ universal_set # {}
    /\ Outcome(call.tree.operands[1]).ok
    /\ Outcome(call.tree.operands[1]).ids = {}
    /\ FailsAlone(call.tree.operands[2])
    /\ Raised /\ result.n = 2
    /\ result.err = Outcome(call.tree.operands[2]).err

====
